---- MODULE Spec2Model ----
(***************************************************************************)
(* Model of the extension generator's repository-patching engine           *)
(* (src/src/lib/generator.ts).                                             *)
(*                                                                         *)
(* Text is a sequence of atoms.  An atom is a piece of text that the code  *)
(* never splits (a keyword, an indentation run, a fixed phrase) or one     *)
(* character of an identifier; substring search and pattern replacement    *)
(* work on these sequences the way the JavaScript operations work on       *)
(* characters.  A JSON document is its parsed value together with the      *)
(* layout of its text.                                                     *)
(***************************************************************************)
EXTENDS Integers, Sequences, FiniteSets, TLC

(***************************************************************************)
(* Bounds of the model.                                                    *)
(***************************************************************************)
\* number of generateExtension calls made on one repository
MaxRuns == 2

(***************************************************************************)
(* String primitives of the JavaScript runtime.                            *)
(***************************************************************************)
\* s has p at position i
MatchAt(s, p, i) ==
  /\ i >= 1
  /\ i + Len(p) - 1 <= Len(s)
  /\ \A j \in 1..Len(p) : s[i + j - 1] = p[j]

\* String.prototype.includes
Includes(s, p) == \E i \in 1..(Len(s) + 1) : MatchAt(s, p, i)

\* position of the first occurrence of p in s, 0 when there is none
IndexOf(s, p) ==
  IF Includes(s, p)
  THEN CHOOSE i \in 1..(Len(s) + 1) :
         /\ MatchAt(s, p, i)
         /\ \A k \in 1..(i - 1) : ~MatchAt(s, p, k)
  ELSE 0

RECURSIVE Concat(_)
\* Array.prototype.join("") of a sequence of texts
Concat(ss) == IF ss = <<>> THEN <<>> ELSE Head(ss) \o Concat(Tail(ss))

\* the text a replacement atom stands for: String.prototype.replace reads
\* $$ as a dollar sign, $& as the match and $n as the n-th group when the
\* pattern has one
ExpandAtom(a, groups, matched) ==
  CASE a = "$$" -> <<"$">>
    [] a = "$&" -> matched
    [] a = "$1" -> IF Len(groups) >= 1 THEN groups[1] ELSE <<a>>
    [] a = "$2" -> IF Len(groups) >= 2 THEN groups[2] ELSE <<a>>
    [] a = "$3" -> IF Len(groups) >= 3 THEN groups[3] ELSE <<a>>
    [] OTHER -> <<a>>

ExpandReplacement(repl, groups, matched) ==
  Concat([k \in 1..Len(repl) |-> ExpandAtom(repl[k], groups, matched)])

\* a replace that puts the replacement at the end of a text without a match
ReplaceOrAppend(s, groups, repl) ==
  LET pat == Concat(groups)
      i == IndexOf(s, pat)
  IN IF i = 0
     THEN s \o ExpandReplacement(repl, groups, <<>>)
     ELSE SubSeq(s, 1, i - 1) \o ExpandReplacement(repl, groups, pat)
            \o SubSeq(s, i + Len(pat), Len(s))

\* String.prototype.replace with a non-global pattern made of literal groups:
\* the first match is replaced, a text without a match is returned as it is
Replace(s, groups, repl) ==
  LET pat == Concat(groups)
      i == IndexOf(s, pat)
  IN IF i = 0
     THEN s
     ELSE SubSeq(s, 1, i - 1) \o ExpandReplacement(repl, groups, pat)
            \o SubSeq(s, i + Len(pat), Len(s))

(***************************************************************************)
(* src/lib/utils.ts                                                        *)
(***************************************************************************)
ToUpper(a) ==
  CASE a = "a" -> "A" [] a = "b" -> "B" [] a = "k" -> "K" [] OTHER -> a

ToLower(a) ==
  CASE a = "A" -> "a" [] a = "B" -> "b" [] a = "K" -> "k" [] OTHER -> a

\* the separators of /[-_\s]+/
IsSeparator(a) == a \in {"-", "_", " "}

\* capitalize: the first character in upper case, the rest as it is
capitalize(str) ==
  IF str = <<>> THEN str ELSE <<ToUpper(Head(str))>> \o Tail(str)

RECURSIVE PascalFrom(_, _)
\* the words of str, each in lower case and capitalized, joined; wordStart says
\* that the next character begins a word
PascalFrom(str, wordStart) ==
  IF str = <<>> THEN <<>>
  ELSE IF IsSeparator(Head(str)) THEN PascalFrom(Tail(str), TRUE)
  ELSE <<IF wordStart THEN ToUpper(ToLower(Head(str))) ELSE ToLower(Head(str))>>
         \o PascalFrom(Tail(str), FALSE)

toPascalCase(str) == PascalFrom(str, TRUE)

toCamelCase(str) ==
  LET pascal == toPascalCase(str)
  IN IF pascal = <<>> THEN pascal ELSE <<ToLower(Head(pascal))>> \o Tail(pascal)

(***************************************************************************)
(* Paths.                                                                  *)
(***************************************************************************)
\* path.join of two parts
Join(a, b) == a \o <<"/">> \o b

\* the root of the target repository (context.repoPath)
RepoPath == <<"/repo">>

\* `vscode/${config.language}`
WorkspacePath(language) == <<"vscode", "/">> \o language

\* join(repoPath, "vscode", config.language)
ExtensionDir(language) == Join(Join(RepoPath, <<"vscode">>), language)

(***************************************************************************)
(* Array.prototype.sort() without a comparator: ascending order of the     *)
(* strings' code units.                                                    *)
(***************************************************************************)
\* position of an atom in the order of the code units of its first character
AtomRank(a) ==
  CASE a = "-" -> 1
    [] a = "/" -> 2
    [] a = "a" -> 3
    [] a = "agentic" -> 4
    [] a = "b" -> 5
    [] a = "core" -> 6
    [] a = "shared" -> 7
    [] a = "vscode" -> 8
    [] OTHER -> 9

RECURSIVE StringLess(_, _)
\* x < y for strings
StringLess(x, y) ==
  IF y = <<>> THEN FALSE
  ELSE IF x = <<>> THEN TRUE
  ELSE IF Head(x) = Head(y) THEN StringLess(Tail(x), Tail(y))
  ELSE AtomRank(Head(x)) < AtomRank(Head(y))

RECURSIVE InsertSorted(_, _)
InsertSorted(sorted, x) ==
  IF sorted = <<>> THEN <<x>>
  ELSE IF StringLess(x, Head(sorted)) THEN <<x>> \o sorted
  ELSE <<Head(sorted)>> \o InsertSorted(Tail(sorted), x)

RECURSIVE SortStrings(_)
SortStrings(arr) ==
  IF arr = <<>> THEN <<>>
  ELSE InsertSorted(SortStrings(SubSeq(arr, 1, Len(arr) - 1)), arr[Len(arr)])

Range(seq) == {seq[i] : i \in 1..Len(seq)}

(***************************************************************************)
(* JSON documents.  A document on disk is [exists, ok, layout, val]: ok    *)
(* says that JSON.parse accepts the text, layout names how the text is     *)
(* laid out, val is the parsed value.  An object value lists its keys in   *)
(* insertion order in val.keys.                                            *)
(***************************************************************************)
HasKey(obj, key) == key \in Range(obj.keys)

\* assigning obj[key]: a new key goes after the existing ones
WithKey(obj, key) ==
  IF HasKey(obj, key) THEN obj.keys ELSE Append(obj.keys, key)

\* JSON.stringify(value, null, 2) + "\n" as a file
Stringify(value) == [exists |-> TRUE, ok |-> TRUE, layout |-> "indent2", val |-> value]

\* scripts[name] = command on an ordered list of <<name, command>> pairs
SetScript(scripts, name, command) ==
  IF \E i \in 1..Len(scripts) : scripts[i][1] = name
  THEN [i \in 1..Len(scripts) |->
          IF scripts[i][1] = name THEN <<name, command>> ELSE scripts[i]]
  ELSE Append(scripts, <<name, command>>)

IsWhitespace(a) == a \in {" ", "\n", "      ", "        "}

RECURSIVE ClosesNext(_)
\* the text starts with \s*[}\]]
ClosesNext(s) ==
  /\ s # <<>>
  /\ \/ Head(s) \in {"}", "]"}
     \/ IsWhitespace(Head(s)) /\ ClosesNext(Tail(s))

RECURSIVE StripTrailingCommas(_)
\* content.replace(/,(\s*[}\]])/g, "$1")
StripTrailingCommas(s) ==
  IF s = <<>> THEN <<>>
  ELSE IF Head(s) = "," /\ ClosesNext(Tail(s)) THEN StripTrailingCommas(Tail(s))
  ELSE <<Head(s)>> \o StripTrailingCommas(Tail(s))

(***************************************************************************)
(* Inputs: the extension configurations (ExtensionConfigSchema) and the    *)
(* facts read from the target repository (readRepoConfig).                 *)
(***************************************************************************)
\* identifiers accepted by /^[a-z][a-z0-9-]*$/; the first is a prefix of the second
Languages == {<<"a">>, <<"a", "b">>}

\* provider.binaryName is any non-empty string; the second holds a dollar pair
BinaryNames == {<<"k">>, <<"k", "$$">>}

\* provider.assetSource, when the configuration gives one; both fields are
\* any non-empty string, and the release tag of the second holds a dollar pair
GivenAssetSource == [repository |-> <<"acme", "/", "tools">>, releaseTag |-> <<"v1">>]

DollarAssetSource ==
  [repository |-> <<"acme", "/", "tools">>, releaseTag |-> <<"v1", "$$">>]

Config(language, binaryName, lspEnabled, proxyRequired, hasAssetSource, assetSource) ==
  [language |-> language,
   displayName |-> <<"Lang">>,
   binaryName |-> binaryName,
   lspEnabled |-> lspEnabled,
   proxyRequired |-> proxyRequired,
   hasAssetSource |-> hasAssetSource,
   assetSource |-> assetSource]

\* the configurations of the runs: each identifier with each binary name, every
\* pair of lsp.enabled and lsp.proxyRequired, with and without an asset source
Configs ==
  {Config(<<"a">>, <<"k">>, TRUE, TRUE, TRUE, GivenAssetSource),
   Config(<<"a", "b">>, <<"k">>, FALSE, FALSE, FALSE, GivenAssetSource),
   Config(<<"a">>, <<"k", "$$">>, TRUE, FALSE, TRUE, DollarAssetSource),
   Config(<<"a", "b">>, <<"k", "$$">>, FALSE, TRUE, FALSE, GivenAssetSource)}

\* the defaults of readRepoConfig
RepoConfig ==
  [org |-> <<"konveyor">>, repo |-> <<"kai">>, releaseTag |-> <<"v0.8.0-beta.5">>]

\* the TemplateData record generateExtension builds from the configuration
TemplateData(config) ==
  [language |-> config.language,
   displayName |-> config.displayName,
   pascalLanguage |-> toPascalCase(config.language),
   camelLanguage |-> toCamelCase(config.language),
   binaryName |-> config.binaryName,
   hasAssetSource |-> config.hasAssetSource,
   assetSource |-> config.assetSource,
   lspEnabled |-> config.lspEnabled,
   proxyRequired |-> config.proxyRequired]

(***************************************************************************)
(* Templates (generateNewFiles).                                           *)
(***************************************************************************)
\* a mapping table that emits the proxy server only when lsp.enabled is set too
FileMappingsProxyNeedsLsp(data) ==
  << [template |-> "package.json.hbs", dir |-> <<>>, file |-> <<"package.json">>,
      condition |-> TRUE],
     [template |-> "tsconfig.json.hbs", dir |-> <<>>, file |-> <<"tsconfig.json">>,
      condition |-> TRUE],
     [template |-> "webpack.config.js.hbs", dir |-> <<>>, file |-> <<"webpack.config.js">>,
      condition |-> TRUE],
     [template |-> "eslintrc.json.hbs", dir |-> <<>>, file |-> <<".eslintrc.json">>,
      condition |-> TRUE],
     [template |-> "LICENSE.md.hbs", dir |-> <<>>, file |-> <<"LICENSE.md">>,
      condition |-> TRUE],
     [template |-> "extension.ts.hbs", dir |-> <<"src">>, file |-> <<"extension.ts">>,
      condition |-> TRUE],
     [template |-> "providerManager.ts.hbs", dir |-> <<"src">>,
      file |-> data.pascalLanguage \o <<"ExternalProviderManager.ts">>,
      condition |-> TRUE],
     [template |-> "proxyServer.ts.hbs", dir |-> <<"src">>,
      file |-> data.pascalLanguage \o <<"VscodeProxyServer.ts">>,
      condition |-> data.proxyRequired /\ data.lspEnabled],
     [template |-> "constants.ts.hbs", dir |-> <<"src", "/", "utilities">>,
      file |-> <<"constants.ts">>,
      condition |-> TRUE] >>

\* the fileMappings list, in declaration order; dir and file are the two
\* parts of mapping.output
FileMappings(data) ==
  << [template |-> "package.json.hbs", dir |-> <<>>, file |-> <<"package.json">>,
      condition |-> TRUE],
     [template |-> "tsconfig.json.hbs", dir |-> <<>>, file |-> <<"tsconfig.json">>,
      condition |-> TRUE],
     [template |-> "webpack.config.js.hbs", dir |-> <<>>, file |-> <<"webpack.config.js">>,
      condition |-> TRUE],
     [template |-> "eslintrc.json.hbs", dir |-> <<>>, file |-> <<".eslintrc.json">>,
      condition |-> TRUE],
     [template |-> "LICENSE.md.hbs", dir |-> <<>>, file |-> <<"LICENSE.md">>,
      condition |-> TRUE],
     [template |-> "extension.ts.hbs", dir |-> <<"src">>, file |-> <<"extension.ts">>,
      condition |-> TRUE],
     [template |-> "providerManager.ts.hbs", dir |-> <<"src">>,
      file |-> data.pascalLanguage \o <<"ExternalProviderManager.ts">>,
      condition |-> TRUE],
     [template |-> "proxyServer.ts.hbs", dir |-> <<"src">>,
      file |-> data.pascalLanguage \o <<"VscodeProxyServer.ts">>,
      condition |-> data.proxyRequired],
     [template |-> "constants.ts.hbs", dir |-> <<"src", "/", "utilities">>,
      file |-> <<"constants.ts">>,
      condition |-> TRUE] >>

TemplateNames ==
  {"package.json.hbs", "tsconfig.json.hbs", "webpack.config.js.hbs",
   "eslintrc.json.hbs", "LICENSE.md.hbs", "extension.ts.hbs",
   "providerManager.ts.hbs", "proxyServer.ts.hbs", "constants.ts.hbs"}

\* mapping.output
Output(mapping) ==
  IF mapping.dir = <<>> THEN mapping.file ELSE Join(mapping.dir, mapping.file)

\* the text of a template file: its name, then placeholder expressions; the
\* constants template also names the repository of the asset source
TemplateSource(name) ==
  <<name, ": ", "{{language}}", " ", "{{pascalCase language}}", " ", "{{displayName}}">>
    \o (IF name = "constants.ts.hbs"
        THEN <<" from ", "{{provider.assetSource.repository}}", ";">>
        ELSE <<>>)

\* what a placeholder expression evaluates to
Evaluate(expr, data) ==
  CASE expr = "{{language}}" -> data.language
    [] expr = "{{pascalCase language}}" -> toPascalCase(data.language)
    [] expr = "{{camelCase language}}" -> toCamelCase(data.language)
    [] expr = "{{capitalize language}}" -> capitalize(data.language)
    [] expr = "{{displayName}}" -> data.displayName
    [] expr = "{{provider.binaryName}}" -> data.binaryName
    [] expr = "{{provider.assetSource.repository}}" ->
         IF data.hasAssetSource THEN data.assetSource.repository ELSE <<>>
    [] OTHER -> <<expr>>

\* Handlebars.compile(templateContent)(data)
Render(source, data) ==
  Concat([k \in 1..Len(source) |-> Evaluate(source[k], data)])

(***************************************************************************)
(* The file tree below the extension directory: dirs is the set of         *)
(* directories, tree the set of <<path, content>> of regular files.        *)
(***************************************************************************)
\* path and the directories above it
WithAncestors(path) ==
  {SubSeq(path, 1, n) : n \in {m \in 1..Len(path) :
      path[m] # "/" /\ (m = Len(path) \/ path[m + 1] = "/")}}

\* mkdir(path, { recursive: true })
Mkdir(directories, path) == directories \cup WithAncestors(path)

\* writeFile(path, content)
WriteFile(fileTree, path, content) ==
  {f \in fileTree : f[1] # path} \cup {<<path, content>>}

\* existsSync(path) for a path below the repository root
ExistsSync(directories, fileTree, path) ==
  path \in directories \/ \E f \in fileTree : f[1] = path

(***************************************************************************)
(* FileOperation records (src/types/config.ts).  An optional field is a    *)
(* flag saying whether it is set and the value.                            *)
(***************************************************************************)
CreateOperation(path, description, hasContent, content) ==
  [type |-> "create", path |-> path, description |-> description,
   hasChanges |-> FALSE, changes |-> <<>>,
   hasContent |-> hasContent, content |-> IF hasContent THEN content ELSE <<>>,
   hasDiff |-> FALSE, diff |-> <<>>]

ModifyOperation(path, description, changes, diff) ==
  [type |-> "modify", path |-> path, description |-> description,
   hasChanges |-> TRUE, changes |-> changes,
   hasContent |-> FALSE, content |-> <<>>,
   hasDiff |-> TRUE, diff |-> diff]

\* writes that are not guarded by the mode
WritesAlways(dryRun) == TRUE

\* the writes and mkdirs are inside `if (!dryRun)`
WritesToDisk(dryRun) == ~dryRun

\* the check with the negation of force dropped
AlreadyExistsForced(dirExists, force) == dirExists /\ force

\* the existence guard of a target left out
ExistsAlways(file) == TRUE

\* existsSync of a target file, the guard around each strategy
ExistsTarget(file) == file.exists

\* `existsSync(extensionDir) && !options.force`
AlreadyExists(dirExists, force) == dirExists /\ ~force

(***************************************************************************)
(* Root package.json.                                                      *)
(***************************************************************************)
PackagePath == <<"package.json">>

ScriptName(config) == <<"package-">> \o config.language

ScriptCommand(config) == <<"node ./scripts/package-extensions.js ">> \o config.language

\* a patch that leaves the new workspace at the end of the list
PatchedPackageUnsorted(rootPkg, config) ==
  LET workspacePath == WorkspacePath(config.language)
      present == HasKey(rootPkg, "workspaces")
                   /\ workspacePath \in Range(rootPkg.workspaces)
      withWorkspace ==
        IF present THEN rootPkg
        ELSE [rootPkg EXCEPT
                !.keys = WithKey(rootPkg, "workspaces"),
                !.workspaces = Append(rootPkg.workspaces, workspacePath)]
  IN [withWorkspace EXCEPT
        !.keys = WithKey(withWorkspace, "scripts"),
        !.scripts = SetScript(withWorkspace.scripts, ScriptName(config),
                              ScriptCommand(config))]

\* the manifest after the workspace and the script were added
PatchedPackage(rootPkg, config) ==
  LET workspacePath == WorkspacePath(config.language)
      present == HasKey(rootPkg, "workspaces")
                   /\ workspacePath \in Range(rootPkg.workspaces)
      withWorkspace ==
        IF present THEN rootPkg
        ELSE [rootPkg EXCEPT
                !.keys = WithKey(rootPkg, "workspaces"),
                !.workspaces = SortStrings(Append(rootPkg.workspaces, workspacePath))]
  IN [withWorkspace EXCEPT
        !.keys = WithKey(withWorkspace, "scripts"),
        !.scripts = SetScript(withWorkspace.scripts, ScriptName(config),
                              ScriptCommand(config))]

\* the package.json strategy stages its operation whenever the file exists
PackageStages(rootPkg, config) == TRUE

PackageOperation(config) ==
  ModifyOperation(PackagePath, <<"Add workspace and package script">>,
    << <<"Add ", "\"">> \o WorkspacePath(config.language)
         \o <<"\"", " to workspaces array">>,
       <<"Add script ", "\"">> \o ScriptName(config) \o <<"\"", ": ", "\"">>
         \o ScriptCommand(config) \o <<"\"">> >>,
    <<"  \"workspaces\": [\n    ...\n+   ", "\"">> \o WorkspacePath(config.language)
      \o <<"\"", "\n  ],\n  \"scripts\": {\n    ...\n+   ", "\"">>
      \o ScriptName(config) \o <<"\"", ": ", "\"">> \o ScriptCommand(config)
      \o <<"\"", "\n  }">>)

(***************************************************************************)
(* CI workflow.                                                            *)
(***************************************************************************)
CiPath == <<".github/workflows/ci-repo.yml">>

UploadStep == "- name: Upload VSIX artifacts"

PackageStep(config) ==
  <<"- name: Package ">> \o config.displayName
    \o <<" extension", "\n", "        ", "run: npm run ", "package-">>
    \o config.language \o <<"\n", "        ", "if: runner.os == 'Linux'">>

\* ciContent.includes(`package-${config.language}`)
CiPresent(ciContent, config) == Includes(ciContent, <<"package-">> \o config.language)

\* /(\n)(      )(- name: Upload VSIX artifacts)/
CiAnchor == << <<"\n">>, <<"      ">>, <<UploadStep>> >>

PatchedCi(ciContent, config) ==
  Replace(ciContent, CiAnchor,
          <<"$1", "$2">> \o PackageStep(config) \o <<"\n", "\n", "$2", "$3">>)

CiOperation(config) ==
  ModifyOperation(CiPath, <<"Add package step for extension">>,
    << <<"Add step: \"Package ">> \o config.displayName \o <<" extension\"">>,
       <<"Run: npm run ", "package-">> \o config.language >>,
    <<"+     - name: Package ">> \o config.displayName
      \o <<" extension\n+       run: npm run ", "package-">> \o config.language
      \o <<"\n+       if: runner.os == 'Linux'">>)

(***************************************************************************)
(* scripts/collect-assets.js.                                              *)
(***************************************************************************)
CollectAssetsPath == <<"scripts/collect-assets.js">>

Quoted(name) == <<"\"">> \o name \o <<"\"">>

\* config.provider.assetSource?.repository || `${repoConfig.org}/${repoConfig.repo}`
AssetRepo(config, repoConfig) ==
  IF config.hasAssetSource /\ config.assetSource.repository # <<>>
  THEN config.assetSource.repository
  ELSE repoConfig.org \o <<"/">> \o repoConfig.repo

\* config.provider.assetSource?.releaseTag || repoConfig.releaseTag
AssetTag(config, repoConfig) ==
  IF config.hasAssetSource /\ config.assetSource.releaseTag # <<>>
  THEN config.assetSource.releaseTag
  ELSE repoConfig.releaseTag

AssetConfig(config, repoConfig) ==
  <<"  ">> \o Quoted(config.binaryName)
    \o <<": {\n    release: {\n      repo: ">> \o Quoted(AssetRepo(config, repoConfig))
    \o <<",\n      tag: ">> \o Quoted(AssetTag(config, repoConfig))
    \o <<",\n    },\n  },">>

\* a presence test that looks for the extension identifier instead
AssetsPresentByLanguage(content, config) == Includes(content, Quoted(config.language))

\* content.includes(`"${config.provider.binaryName}"`)
AssetsPresent(content, config) == Includes(content, Quoted(config.binaryName))

\* /(const ASSETS = \{)/
AssetsAnchor == << <<"const ASSETS = {">> >>

PatchedAssets(content, config, repoConfig) ==
  Replace(content, AssetsAnchor, <<"$1", "\n">> \o AssetConfig(config, repoConfig))

AssetsOperation(config, repoConfig) ==
  ModifyOperation(CollectAssetsPath, <<"Add asset download configuration">>,
    << <<"Add ">> \o Quoted(config.binaryName) \o <<" to ASSETS object">>,
       <<"Repository: ">> \o AssetRepo(config, repoConfig),
       <<"Tag: ">> \o AssetTag(config, repoConfig) >>,
    <<"  const ASSETS = {\n+   ">> \o Quoted(config.binaryName)
      \o <<": {\n+     release: {\n+       repo: ">>
      \o Quoted(AssetRepo(config, repoConfig))
      \o <<",\n+       tag: ">> \o Quoted(AssetTag(config, repoConfig))
      \o <<",\n+     },\n+   },\n    ...\n  };">>)

(***************************************************************************)
(* scripts/copy-dist.js.                                                   *)
(***************************************************************************)
CopyDistPath == <<"scripts/copy-dist.js">>

CopyConfig(config) ==
  <<"  ">> \o Quoted(config.language)
    \o <<": {\n    extensionPath: ">> \o Quoted(WorkspacePath(config.language))
    \o <<",\n    includedAssetPaths: {\n      ">>
    \o Quoted(toCamelCase(config.binaryName)) \o <<": ">>
    \o Quoted(<<"../../downloaded_assets/">> \o config.binaryName)
    \o <<",\n    },\n  },">>

\* content.includes(`"${config.language}"`)
CopyDistPresent(content, config) == Includes(content, Quoted(config.language))

\* /(const EXTENSIONS = \{)/
ExtensionsAnchor == << <<"const EXTENSIONS = {">> >>

\* a patch that puts the entry before the opening token
PatchedCopyDistBeforeToken(content, config) ==
  Replace(content, ExtensionsAnchor, CopyConfig(config) \o <<"\n", "$1">>)

PatchedCopyDist(content, config) ==
  Replace(content, ExtensionsAnchor, <<"$1", "\n">> \o CopyConfig(config))

CopyDistOperation(config) ==
  ModifyOperation(CopyDistPath, <<"Add dist copy configuration">>,
    << <<"Add ">> \o Quoted(config.language) \o <<" to EXTENSIONS object">>,
       <<"Extension path: ">> \o WorkspacePath(config.language) >>,
    <<"  const EXTENSIONS = {\n+   ">> \o Quoted(config.language)
      \o <<": {\n+     extensionPath: ">> \o Quoted(WorkspacePath(config.language))
      \o <<",\n+     includedAssetPaths: {\n+       ">>
      \o Quoted(toCamelCase(config.binaryName)) \o <<": ">>
      \o Quoted(<<"../../downloaded_assets/">> \o config.binaryName)
      \o <<",\n+     },\n+   },\n    ...\n  };">>)

(***************************************************************************)
(* scripts/package-extensions.js.                                          *)
(***************************************************************************)
PackageExtPath == <<"scripts/package-extensions.js">>

\* content.includes(`"${config.language}"`)
PackageExtPresent(content, config) == Includes(content, Quoted(config.language))

\* /(const VALID_EXTENSIONS = \[)/
ValidExtensionsAnchor == << <<"const VALID_EXTENSIONS = [">> >>

PatchedPackageExt(content, config) ==
  Replace(content, ValidExtensionsAnchor,
          <<"$1">> \o Quoted(config.language) \o <<", ">>)

PackageExtOperation(config) ==
  ModifyOperation(PackageExtPath, <<"Add extension to valid list">>,
    << <<"Add ">> \o Quoted(config.language) \o <<" to VALID_EXTENSIONS array">> >>,
    <<"- const VALID_EXTENSIONS = [...];\n+ const VALID_EXTENSIONS = [">>
      \o Quoted(config.language) \o <<", ...];">>)

(***************************************************************************)
(* .vscode/launch.json.                                                    *)
(***************************************************************************)
LaunchPath == <<".vscode/launch.json">>

\* `${workspaceFolder}/vscode/${config.language}`
DevelopmentPath(language) == <<"${workspaceFolder}/">> \o WorkspacePath(language)

\* launchJson.configurations?.some(c => c.extensionDevelopmentPath?.some(p =>
\*   p.includes(`vscode/${config.language}`)))
HasExtension(launchJson, config) ==
  /\ HasKey(launchJson, "configurations")
  /\ \E i \in 1..Len(launchJson.configurations) :
       LET c == launchJson.configurations[i]
       IN /\ c.hasPaths
          /\ \E j \in 1..Len(c.paths) :
               Includes(c.paths[j], WorkspacePath(config.language))

\* `!hasExtension && launchJson.configurations`
LaunchStages(launchJson, config) ==
  ~HasExtension(launchJson, config) /\ HasKey(launchJson, "configurations")

\* the forEach that pushes the path to every configuration that has a list
PatchedLaunch(launchJson, config) ==
  [launchJson EXCEPT !.configurations =
     [i \in 1..Len(launchJson.configurations) |->
        LET c == launchJson.configurations[i]
        IN IF c.hasPaths
           THEN [c EXCEPT !.paths = Append(c.paths, DevelopmentPath(config.language))]
           ELSE c]]

LaunchOperation(config) ==
  ModifyOperation(LaunchPath, <<"Add extension to debug configuration">>,
    << <<"Add ">> \o Quoted(DevelopmentPath(config.language))
         \o <<" to extensionDevelopmentPath">> >>,
    <<"  \"args\": [\n    ...\n+   \"--extensionDevelopmentPath=">>
      \o DevelopmentPath(config.language) \o <<"\",\n  ]">>)

(***************************************************************************)
(* konveyor-extensions.code-workspace.                                     *)
(***************************************************************************)
WorkspaceFilePath == <<"konveyor-extensions.code-workspace">>

\* parseJsonc: the commas before a closing brace or bracket are removed from
\* the whole text, string values included, and the rest is parsed
ParseJsonc(val) ==
  [val EXCEPT !.folders =
     [i \in 1..Len(val.folders) |->
        [val.folders[i] EXCEPT !.path = StripTrailingCommas(@),
                               !.name = StripTrailingCommas(@)]]]

\* workspace.folders?.some(f => f.path === `vscode/${config.language}`)
HasFolder(workspace, config) ==
  /\ HasKey(workspace, "folders")
  /\ \E i \in 1..Len(workspace.folders) :
       workspace.folders[i].path = WorkspacePath(config.language)

PatchedWorkspace(workspace, config) ==
  [workspace EXCEPT
     !.keys = WithKey(workspace, "folders"),
     !.folders = Append(workspace.folders,
                        [path |-> WorkspacePath(config.language),
                         hasName |-> FALSE, name |-> <<>>])]

WorkspaceOperation(config) ==
  ModifyOperation(WorkspaceFilePath, <<"Add extension folder to workspace">>,
    << <<"Add folder: { \"path\": ">> \o Quoted(WorkspacePath(config.language))
         \o <<" }">> >>,
    <<"  \"folders\": [\n    ...\n+   {\n+     \"path\": ">>
      \o Quoted(WorkspacePath(config.language)) \o <<"\n+   }\n  ]">>)

\* the message of the SyntaxError JSON.parse throws
ParseError == <<"Unexpected token in JSON">>

(***************************************************************************)
(* Target repositories.  Each target file has an ordinary content, as in   *)
(* the host project (OrdinaryRepository), and the deviating contents       *)
(* listed here.                                                            *)
(***************************************************************************)
TextFile(text) == [exists |-> TRUE, text |-> text]

AbsentText == [exists |-> FALSE, text |-> <<>>]

JsonFile(ok, layout, val) == [exists |-> TRUE, ok |-> ok, layout |-> layout, val |-> val]

EmptyManifest == [keys |-> <<>>, name |-> <<>>, workspaces |-> <<>>, scripts |-> <<>>]

EmptyLaunch == [keys |-> <<>>, configurations |-> <<>>]

EmptyWorkspace == [keys |-> <<>>, folders |-> <<>>]

AbsentJson(val) == [exists |-> FALSE, ok |-> FALSE, layout |-> "none", val |-> val]

Manifest(workspaces) ==
  [keys |-> <<"name", "workspaces", "scripts">>, name |-> <<"editor-extensions">>,
   workspaces |-> workspaces, scripts |-> << << <<"build">>, <<"tsc">> >> >>]

PackageContents ==
  {\* workspaces not in sorted order
   JsonFile(TRUE, "hand", Manifest(<< <<"vscode", "/", "core">>, <<"agentic">> >>)),
   \* the extension "a" is a workspace already
   JsonFile(TRUE, "indent2",
            Manifest(<< <<"agentic">>, <<"vscode", "/", "a">>, <<"vscode", "/", "core">> >>)),
   \* neither a workspaces nor a scripts key
   JsonFile(TRUE, "hand", [EmptyManifest EXCEPT !.keys = <<"name">>, !.name = <<"x">>]),
   \* not JSON
   JsonFile(FALSE, "hand", EmptyManifest),
   AbsentJson(EmptyManifest)}

CiContents ==
  {\* the upload step was renamed
   TextFile(<<"steps:", "\n", "      ", "- name: Upload artifacts", "\n">>),
   \* the upload step is indented by four spaces
   TextFile(<<"steps:", "\n", "    ", UploadStep, "\n">>),
   \* a package step of the extension "ab" is there already
   TextFile(<<"steps:", "\n", "      ", "- name: Package AB extension", "\n", "        ",
              "run: npm run ", "package-", "a", "b", "\n", "\n", "      ", UploadStep>>),
   AbsentText}

CollectAssetsContents ==
  {\* no `const ASSETS = {`
   TextFile(<<"let ASSETS = {", "\n", "};">>),
   \* the binary "k" is a key already
   TextFile(<<"const ASSETS = {", "\n", "  ", "\"", "k", "\"", ": {},", "\n", "};">>),
   \* "k" is quoted outside the ASSETS literal
   TextFile(<<"const TOOLS = [", "\"", "k", "\"", "];", "\n", "const ASSETS = {", "\n",
              "};">>),
   AbsentText}

CopyDistContents ==
  {\* no `const EXTENSIONS = {`
   TextFile(<<"module.exports = {", "\n", "};">>),
   \* the extension "a" is a key already
   TextFile(<<"const EXTENSIONS = {", "\n", "  ", "\"", "a", "\"", ": {},", "\n", "};">>),
   \* "a" is quoted outside the EXTENSIONS literal
   TextFile(<<"const ORDER = [", "\"", "a", "\"", "];", "\n", "const EXTENSIONS = {",
              "\n", "};">>),
   AbsentText}

PackageExtContents ==
  {\* no `const VALID_EXTENSIONS = [`
   TextFile(<<"const VALID = new Set([", "\"", "core", "\"", "]);">>),
   \* the extension "a" is an element already
   TextFile(<<"const VALID_EXTENSIONS = [", "\"", "a", "\"", ", ", "\"", "core", "\"",
              "];">>),
   \* "a" is quoted outside the VALID_EXTENSIONS literal
   TextFile(<<"const VALID_EXTENSIONS = [", "\"", "core", "\"", "];", "\n",
              "const flag = ", "\"", "a", "\"", ";">>),
   AbsentText}

Configuration(name, hasPaths, paths) ==
  [name |-> name, hasPaths |-> hasPaths, paths |-> paths]

Launch(configurations) ==
  [keys |-> <<"version", "configurations">>, configurations |-> configurations]

LaunchContents ==
  {\* one configuration without a path list
   JsonFile(TRUE, "hand",
            Launch(<< Configuration("Run Extension", TRUE, <<DevelopmentPath(<<"core">>)>>),
                      Configuration("Attach", FALSE, <<>>) >>)),
   \* no configuration has a path list
   JsonFile(TRUE, "hand", Launch(<< Configuration("Attach", FALSE, <<>>) >>)),
   \* the extension "ab" is in one path list already
   JsonFile(TRUE, "indent2",
            Launch(<< Configuration("Run Extension", TRUE,
                                    <<DevelopmentPath(<<"core">>),
                                      DevelopmentPath(<<"a", "b">>)>>),
                      Configuration("Run Tests", TRUE, <<DevelopmentPath(<<"core">>)>>) >>)),
   \* no configurations key
   JsonFile(TRUE, "hand", [EmptyLaunch EXCEPT !.keys = <<"version">>]),
   \* not JSON (comments)
   JsonFile(FALSE, "hand", EmptyLaunch),
   AbsentJson(EmptyLaunch)}

Folder(path, hasName, name) == [path |-> path, hasName |-> hasName, name |-> name]

Workspace(folders) == [keys |-> <<"folders", "settings">>, folders |-> folders]

\* for the workspace file, ok says that the text without its trailing commas parses
WorkspaceContents ==
  {\* the extension "a" is a folder already
   JsonFile(TRUE, "indent2",
            Workspace(<< Folder(<<"vscode", "/", "a">>, FALSE, <<>>) >>)),
   \* no folders key
   JsonFile(TRUE, "hand", [EmptyWorkspace EXCEPT !.keys = <<"settings">>]),
   \* trailing commas, and a folder name that holds a comma before a bracket
   JsonFile(TRUE, "trailingCommas",
            Workspace(<< Folder(<<".">>, TRUE, <<"root">>),
                         Folder(<<"vscode", "/", "core">>, TRUE, <<"core", ",", "]">>) >>)),
   \* comments: not JSON even without the trailing commas
   JsonFile(FALSE, "hand", EmptyWorkspace),
   AbsentJson(EmptyWorkspace)}

Targets == {"package", "ci", "collectAssets", "copyDist", "packageExt", "launch", "workspace"}

Contents(target) ==
  CASE target = "package" -> PackageContents
    [] target = "ci" -> CiContents
    [] target = "collectAssets" -> CollectAssetsContents
    [] target = "copyDist" -> CopyDistContents
    [] target = "packageExt" -> PackageExtContents
    [] target = "launch" -> LaunchContents
    [] target = "workspace" -> WorkspaceContents

\* the repository of the host project: every target in its ordinary form
OrdinaryRepository ==
  [package |->
     JsonFile(TRUE, "hand",
              Manifest(<< <<"agentic">>, <<"shared">>, <<"vscode", "/", "core">> >>)),
   ci |->
     TextFile(<<"steps:", "\n", "      ", "- name: Build", "\n", "      ", UploadStep,
                "\n", "        ", "uses: upload">>),
   collectAssets |->
     TextFile(<<"const ASSETS = {", "\n", "  ", "\"", "kai", "\"", ": {},", "\n", "};">>),
   copyDist |->
     TextFile(<<"const EXTENSIONS = {", "\n", "  ", "\"", "core", "\"", ": {},", "\n",
                "};">>),
   packageExt |-> TextFile(<<"const VALID_EXTENSIONS = [", "\"", "core", "\"", "];">>),
   launch |->
     JsonFile(TRUE, "hand",
              Launch(<< Configuration("Run Extension", TRUE, <<DevelopmentPath(<<"core">>)>>),
                        Configuration("Run Tests", TRUE, <<DevelopmentPath(<<"core">>)>>) >>)),
   workspace |->
     JsonFile(TRUE, "trailingCommas",
              Workspace(<< Folder(<<".">>, TRUE, <<"root">>),
                           Folder(<<"vscode", "/", "core">>, FALSE, <<>>) >>))]

\* a repository without any of the scaffolding
EmptyRepository ==
  [package |-> AbsentJson(EmptyManifest), ci |-> AbsentText, collectAssets |-> AbsentText,
   copyDist |-> AbsentText, packageExt |-> AbsentText, launch |-> AbsentJson(EmptyLaunch),
   workspace |-> AbsentJson(EmptyWorkspace)]

\* the starting repositories: the ordinary one, the ones that differ from it in
\* one target, and the one without scaffolding
Repositories ==
  {OrdinaryRepository, EmptyRepository}
    \cup UNION {{[OrdinaryRepository EXCEPT ![t] = c] : c \in Contents(t)} : t \in Targets}

(***************************************************************************)
(* The command line (index.ts): the flags, and the options object that     *)
(* program.opts() makes of them.                                           *)
(***************************************************************************)
\* the flags a command line gives or leaves out
Flags ==
  [config : BOOLEAN, interactive : BOOLEAN, dryRun : BOOLEAN, force : BOOLEAN,
   noCommit : BOOLEAN, push : BOOLEAN, createPr : BOOLEAN]

NoFlags ==
  [config |-> FALSE, interactive |-> FALSE, dryRun |-> FALSE, force |-> FALSE,
   noCommit |-> FALSE, push |-> FALSE, createPr |-> FALSE]

\* program.opts(): every option is stored under the camel-cased name of its long
\* flag, and the negatable flag --no-commit under `commit`, true unless the
\* flag is given; the object has no key noCommit
ProgramOpts(flags) ==
  [config |-> flags.config, interactive |-> flags.interactive,
   dryRun |-> flags.dryRun, force |-> flags.force,
   commit |-> ~flags.noCommit,
   hasNoCommit |-> FALSE, noCommit |-> FALSE,
   push |-> flags.push, createPr |-> flags.createPr]

\* `!options.config && !options.interactive`, `options.createPr && !options.push`
BadOptions(options) ==
  \/ ~options.config /\ ~options.interactive
  \/ options.createPr /\ ~options.push

\* a guard that prepares the repository in preview mode too
PreparesAlways(options) == TRUE

\* `if (!options.dryRun)` around prepareRepository
PreparesRepository(options) == ~options.dryRun

\* `options.noCommit !== false`: true of a key that is not there
NoCommitIsNotFalse(options) == ~(options.hasNoCommit /\ options.noCommit = FALSE)

\* `!options.dryRun && options.noCommit !== false && git`
CommitsChanges(options, hasGit) ==
  ~options.dryRun /\ NoCommitIsNotFalse(options) /\ hasGit

\* main at the given position
Cli(position, flags, valid) ==
  [pc |-> position, flags |-> flags, options |-> ProgramOpts(flags), valid |-> valid,
   git |-> <<>>, hasGit |-> FALSE, exitCode |-> 0]

\* generateExtension is used without the command line
NoCli == Cli("off", NoFlags, TRUE)

(***************************************************************************)
(* State.                                                                  *)
(***************************************************************************)
VARIABLES
  files,       \* the seven target files of the repository, by target
  dirs,        \* the directories of the repository
  tree,        \* the files below the extension directories: <<path, content>>
  templates,   \* the names of the template files in templatesDir
  cfg,         \* context.config
  pc,          \* the position of the running generateExtension call
  opts,        \* context.options of the running call: dryRun, force
  operations,  \* generateExtension's operations array
  modified,    \* modifyExistingFiles' operations array
  errors,      \* generateExtension's errors array
  thrown,      \* the message of the exception on its way to the catch block
  before,      \* the repository when the running call started
  history,     \* the finished calls: options, repository before and after, result
  cli          \* the run of the command line (main): position, options, git calls

vars ==
  <<files, dirs, tree, templates, cfg, pc, opts, operations, modified, errors, thrown,
    before, history, cli>>

\* the state of generateExtension and of the repository
generation ==
  <<files, dirs, tree, templates, cfg, pc, opts, operations, modified, errors, thrown,
    before, history>>

Snapshot == [files |-> files, dirs |-> dirs, tree |-> tree]

\* the template directories: complete, and with two templates missing
TemplateDirs ==
  {TemplateNames, TemplateNames \ {"extension.ts.hbs", "proxyServer.ts.hbs"}}

\* the directories every repository has
BaseDirs == {RepoPath, Join(RepoPath, <<"vscode">>)}

Init ==
  /\ cfg \in Configs
  /\ files \in Repositories
  /\ templates \in TemplateDirs
  /\ dirs \in {BaseDirs, BaseDirs \cup {ExtensionDir(cfg.language)}}
  /\ tree = {}
  /\ pc = "idle"
  /\ opts = [dryRun |-> FALSE, force |-> FALSE]
  /\ operations = <<>>
  /\ modified = <<>>
  /\ errors = <<>>
  /\ thrown = <<>>
  /\ before = [files |-> files, dirs |-> dirs, tree |-> tree]
  /\ history = <<>>
  /\ cli = NoCli

\* the GenerationResult a call returns, with what the call did to the repository
Finished(success, ops, errs, after) ==
  [dryRun |-> opts.dryRun, force |-> opts.force, language |-> cfg.language,
   before |-> before, after |-> after,
   success |-> success, operations |-> ops, errors |-> errs]

(***************************************************************************)
(* generateExtension.                                                      *)
(***************************************************************************)
\* a call begins: empty operations and errors arrays
Call(dryRun, force) ==
  /\ pc = "idle"
  /\ Len(history) < MaxRuns
  /\ pc' = "check"
  /\ opts' = [dryRun |-> dryRun, force |-> force]
  /\ operations' = <<>>
  /\ modified' = <<>>
  /\ errors' = <<>>
  /\ thrown' = <<>>
  /\ before' = Snapshot
  /\ UNCHANGED <<files, dirs, tree, templates, cfg, history>>

\* a call of generateExtension from outside main
Start(dryRun, force) == Call(dryRun, force) /\ UNCHANGED cli

ExistsMessage(config) ==
  <<"Extension directory already exists: ">> \o ExtensionDir(config.language)
    \o <<". Use --force to overwrite.">>

\* the check for an existing extension directory
CheckExisting ==
  /\ pc = "check"
  /\ IF AlreadyExists(ExistsSync(dirs, tree, ExtensionDir(cfg.language)), opts.force)
     THEN /\ errors' = Append(errors, ExistsMessage(cfg))
          /\ history' = Append(history, Finished(FALSE, operations, errors', Snapshot))
          /\ pc' = "idle"
     ELSE /\ pc' = "mkdir"
          /\ UNCHANGED <<errors, history>>
  /\ UNCHANGED <<files, dirs, tree, templates, cfg, opts, operations, modified, thrown,
                 before>>
  /\ UNCHANGED cli

\* the extension directory structure
CreateDirectories ==
  /\ pc = "mkdir"
  /\ dirs' =
       IF WritesToDisk(opts.dryRun)
       THEN Mkdir(Mkdir(dirs, Join(ExtensionDir(cfg.language), <<"src", "/", "utilities">>)),
                  Join(ExtensionDir(cfg.language), <<"resources">>))
       ELSE dirs
  /\ pc' = "newFiles"
  /\ UNCHANGED <<files, tree, templates, cfg, opts, operations, modified, errors, thrown,
                 before, history>>
  /\ UNCHANGED cli

\* the path of a Create operation staged for a rendered template
RenderedPath(language, mapping) == WorkspacePath(language) \o <<"/">> \o Output(mapping)

\* the path of the placeholder Create operation: outputPath
PlaceholderPath(language, mapping) == Join(ExtensionDir(language), Output(mapping))

\* a loop round that stages the Create operation in preview mode only
EmitMappingStagingInPreview(acc, mapping, data, available, dryRun) ==
  LET outputPath == Join(ExtensionDir(data.language), Output(mapping))
      outputDir == IF mapping.dir = <<>> THEN ExtensionDir(data.language)
                   ELSE Join(ExtensionDir(data.language), mapping.dir)
      rendered == Render(TemplateSource(mapping.template), data)
  IN IF ~mapping.condition THEN acc
     ELSE IF mapping.template \notin available
     THEN [acc EXCEPT !.ops =
             Append(@, CreateOperation(PlaceholderPath(data.language, mapping),
                         <<"Template ", mapping.template, " not found - create manually">>,
                         FALSE, <<>>))]
     ELSE IF dryRun
     THEN [acc EXCEPT !.ops =
             Append(@, CreateOperation(RenderedPath(data.language, mapping),
                         <<"Generated from ", mapping.template>>, dryRun, rendered))]
     ELSE [acc EXCEPT !.dirs = Mkdir(acc.dirs, outputDir),
                      !.tree = WriteFile(acc.tree, outputPath, rendered)]

\* a loop round that passes over a missing template without staging anything
EmitMappingSkippingMissing(acc, mapping, data, available, dryRun) ==
  LET outputPath == Join(ExtensionDir(data.language), Output(mapping))
      outputDir == IF mapping.dir = <<>> THEN ExtensionDir(data.language)
                   ELSE Join(ExtensionDir(data.language), mapping.dir)
      rendered == Render(TemplateSource(mapping.template), data)
  IN IF ~mapping.condition \/ mapping.template \notin available THEN acc
     ELSE [ops |-> Append(acc.ops,
                     CreateOperation(RenderedPath(data.language, mapping),
                       <<"Generated from ", mapping.template>>, dryRun, rendered)),
           dirs |-> IF WritesToDisk(dryRun) THEN Mkdir(acc.dirs, outputDir) ELSE acc.dirs,
           tree |-> IF WritesToDisk(dryRun) THEN WriteFile(acc.tree, outputPath, rendered)
                    ELSE acc.tree]

\* one round of the loop over fileMappings; acc is [ops, dirs, tree]
EmitMapping(acc, mapping, data, available, dryRun) ==
  LET outputPath == Join(ExtensionDir(data.language), Output(mapping))
      outputDir == IF mapping.dir = <<>> THEN ExtensionDir(data.language)
                   ELSE Join(ExtensionDir(data.language), mapping.dir)
      rendered == Render(TemplateSource(mapping.template), data)
  IN IF ~mapping.condition THEN acc
     ELSE IF mapping.template \notin available
     THEN [acc EXCEPT !.ops =
             Append(@, CreateOperation(PlaceholderPath(data.language, mapping),
                         <<"Template ", mapping.template, " not found - create manually">>,
                         FALSE, <<>>))]
     ELSE [ops |-> Append(acc.ops,
                     CreateOperation(RenderedPath(data.language, mapping),
                       <<"Generated from ", mapping.template>>, dryRun, rendered)),
           dirs |-> IF WritesToDisk(dryRun) THEN Mkdir(acc.dirs, outputDir) ELSE acc.dirs,
           tree |-> IF WritesToDisk(dryRun) THEN WriteFile(acc.tree, outputPath, rendered)
                    ELSE acc.tree]

RECURSIVE EmitAll(_, _, _, _, _)
EmitAll(acc, mappings, data, available, dryRun) ==
  IF mappings = <<>> THEN acc
  ELSE EmitAll(EmitMapping(acc, Head(mappings), data, available, dryRun),
               Tail(mappings), data, available, dryRun)

\* generateNewFiles and `operations.push(...newFiles)`
GenerateNewFiles ==
  /\ pc = "newFiles"
  /\ LET data == TemplateData(cfg)
         out == EmitAll([ops |-> <<>>, dirs |-> dirs, tree |-> tree],
                        FileMappings(data), data, templates, opts.dryRun)
     IN /\ operations' = operations \o out.ops
        /\ dirs' = out.dirs
        /\ tree' = out.tree
  /\ pc' = "package"
  /\ UNCHANGED <<files, templates, cfg, opts, modified, errors, thrown, before, history>>
  /\ UNCHANGED cli

(***************************************************************************)
(* modifyExistingFiles, one action for each target file.                   *)
(***************************************************************************)
PatchPackage ==
  /\ pc = "package"
  /\ IF ~ExistsTarget(files.package)
     THEN /\ pc' = "ci"
          /\ UNCHANGED <<files, modified, thrown>>
     ELSE IF ~files.package.ok
     THEN /\ pc' = "catch"
          /\ thrown' = ParseError
          /\ UNCHANGED <<files, modified>>
     ELSE /\ files' =
               IF WritesToDisk(opts.dryRun)
               THEN [files EXCEPT !.package =
                       Stringify(PatchedPackage(files.package.val, cfg))]
               ELSE files
          /\ modified' =
               IF PackageStages(files.package.val, cfg)
               THEN Append(modified, PackageOperation(cfg))
               ELSE modified
          /\ pc' = "ci"
          /\ UNCHANGED thrown
  /\ UNCHANGED <<dirs, tree, templates, cfg, opts, operations, errors, before, history>>
  /\ UNCHANGED cli

PatchCi ==
  /\ pc = "ci"
  /\ IF ExistsTarget(files.ci) /\ ~CiPresent(files.ci.text, cfg)
     THEN /\ files' =
               IF WritesToDisk(opts.dryRun)
               THEN [files EXCEPT !.ci = TextFile(PatchedCi(files.ci.text, cfg))]
               ELSE files
          /\ modified' = Append(modified, CiOperation(cfg))
     ELSE UNCHANGED <<files, modified>>
  /\ pc' = "collectAssets"
  /\ UNCHANGED <<dirs, tree, templates, cfg, opts, operations, errors, thrown, before,
                 history>>
  /\ UNCHANGED cli

PatchCollectAssets ==
  /\ pc = "collectAssets"
  /\ IF ExistsTarget(files.collectAssets) /\ ~AssetsPresent(files.collectAssets.text, cfg)
     THEN /\ files' =
               IF WritesToDisk(opts.dryRun)
               THEN [files EXCEPT !.collectAssets =
                       TextFile(PatchedAssets(files.collectAssets.text, cfg, RepoConfig))]
               ELSE files
          /\ modified' = Append(modified, AssetsOperation(cfg, RepoConfig))
     ELSE UNCHANGED <<files, modified>>
  /\ pc' = "copyDist"
  /\ UNCHANGED <<dirs, tree, templates, cfg, opts, operations, errors, thrown, before,
                 history>>
  /\ UNCHANGED cli

PatchCopyDist ==
  /\ pc = "copyDist"
  /\ IF ExistsTarget(files.copyDist) /\ ~CopyDistPresent(files.copyDist.text, cfg)
     THEN /\ files' =
               IF WritesToDisk(opts.dryRun)
               THEN [files EXCEPT !.copyDist =
                       TextFile(PatchedCopyDist(files.copyDist.text, cfg))]
               ELSE files
          /\ modified' = Append(modified, CopyDistOperation(cfg))
     ELSE UNCHANGED <<files, modified>>
  /\ pc' = "packageExt"
  /\ UNCHANGED <<dirs, tree, templates, cfg, opts, operations, errors, thrown, before,
                 history>>
  /\ UNCHANGED cli

PatchPackageExt ==
  /\ pc = "packageExt"
  /\ IF ExistsTarget(files.packageExt) /\ ~PackageExtPresent(files.packageExt.text, cfg)
     THEN /\ files' =
               IF WritesToDisk(opts.dryRun)
               THEN [files EXCEPT !.packageExt =
                       TextFile(PatchedPackageExt(files.packageExt.text, cfg))]
               ELSE files
          /\ modified' = Append(modified, PackageExtOperation(cfg))
     ELSE UNCHANGED <<files, modified>>
  /\ pc' = "launch"
  /\ UNCHANGED <<dirs, tree, templates, cfg, opts, operations, errors, thrown, before,
                 history>>
  /\ UNCHANGED cli

PatchLaunch ==
  /\ pc = "launch"
  /\ IF ~ExistsTarget(files.launch)
     THEN /\ pc' = "workspace"
          /\ UNCHANGED <<files, modified, thrown>>
     ELSE IF ~files.launch.ok
     THEN /\ pc' = "catch"
          /\ thrown' = ParseError
          /\ UNCHANGED <<files, modified>>
     ELSE /\ IF LaunchStages(files.launch.val, cfg)
             THEN /\ files' =
                       IF WritesToDisk(opts.dryRun)
                       THEN [files EXCEPT !.launch =
                               Stringify(PatchedLaunch(files.launch.val, cfg))]
                       ELSE files
                  /\ modified' = Append(modified, LaunchOperation(cfg))
             ELSE UNCHANGED <<files, modified>>
          /\ pc' = "workspace"
          /\ UNCHANGED thrown
  /\ UNCHANGED <<dirs, tree, templates, cfg, opts, operations, errors, before, history>>
  /\ UNCHANGED cli

PatchWorkspace ==
  /\ pc = "workspace"
  /\ IF ~ExistsTarget(files.workspace)
     THEN /\ pc' = "return"
          /\ UNCHANGED <<files, modified, thrown>>
     ELSE IF ~files.workspace.ok
     THEN /\ pc' = "catch"
          /\ thrown' = ParseError
          /\ UNCHANGED <<files, modified>>
     ELSE /\ LET workspace == ParseJsonc(files.workspace.val)
             IN IF ~HasFolder(workspace, cfg)
                THEN /\ files' =
                          IF WritesToDisk(opts.dryRun)
                          THEN [files EXCEPT !.workspace =
                                  Stringify(PatchedWorkspace(workspace, cfg))]
                          ELSE files
                     /\ modified' = Append(modified, WorkspaceOperation(cfg))
                ELSE UNCHANGED <<files, modified>>
          /\ pc' = "return"
          /\ UNCHANGED thrown
  /\ UNCHANGED <<dirs, tree, templates, cfg, opts, operations, errors, before, history>>
  /\ UNCHANGED cli

\* a success result whose ledger lists the patches before the emissions
ReturnSuccessModifiesFirst ==
  /\ pc = "return"
  /\ operations' = modified \o operations
  /\ history' = Append(history, Finished(TRUE, operations', errors, Snapshot))
  /\ pc' = "idle"
  /\ UNCHANGED <<files, dirs, tree, templates, cfg, opts, modified, errors, thrown, before>>
  /\ UNCHANGED cli

\* `operations.push(...modifiedFiles)` and the success result
ReturnSuccess ==
  /\ pc = "return"
  /\ operations' = operations \o modified
  /\ history' = Append(history, Finished(TRUE, operations', errors, Snapshot))
  /\ pc' = "idle"
  /\ UNCHANGED <<files, dirs, tree, templates, cfg, opts, modified, errors, thrown, before>>
  /\ UNCHANGED cli

\* a catch block that puts the seven targets back as they were at the start
CatchErrorRollingBack ==
  /\ pc = "catch"
  /\ errors' = Append(errors, thrown)
  /\ files' = before.files
  /\ history' = Append(history, Finished(FALSE, operations, errors',
                                         [Snapshot EXCEPT !.files = before.files]))
  /\ pc' = "idle"
  /\ UNCHANGED <<dirs, tree, templates, cfg, opts, operations, modified, thrown, before>>
  /\ UNCHANGED cli

\* a catch block that returns the failure result without recording the message
CatchErrorDroppingMessage ==
  /\ pc = "catch"
  /\ history' = Append(history, Finished(FALSE, operations, errors, Snapshot))
  /\ pc' = "idle"
  /\ UNCHANGED <<files, dirs, tree, templates, cfg, opts, operations, modified, errors,
                 thrown, before>>
  /\ UNCHANGED cli

\* the catch block: the message goes to errors, the failure result is returned
CatchError ==
  /\ pc = "catch"
  /\ errors' = Append(errors, thrown)
  /\ history' = Append(history, Finished(FALSE, operations, errors', Snapshot))
  /\ pc' = "idle"
  /\ UNCHANGED <<files, dirs, tree, templates, cfg, opts, operations, modified, thrown,
                 before>>
  /\ UNCHANGED cli

(***************************************************************************)
(* main (index.ts): the steps around the call of generateExtension.  The   *)
(* git functions are known by their calls, which cli.git lists in order.   *)
(***************************************************************************)
\* process.exit(code)
Exit(code) == [cli EXCEPT !.pc = "exit", !.exitCode = code]

\* a git function was called
GitCall(name) == [cli EXCEPT !.git = Append(cli.git, name)]

\* the repositories the command line is run on: the ordinary one, and one
\* whose launch.json cannot be parsed
CliRepositories ==
  {OrdinaryRepository,
   [OrdinaryRepository EXCEPT !.launch = JsonFile(FALSE, "hand", EmptyLaunch)]}

InitCli ==
  /\ cfg = Config(<<"a">>, <<"k">>, TRUE, TRUE, TRUE, GivenAssetSource)
  /\ files \in CliRepositories
  /\ templates = TemplateNames
  /\ dirs \in {BaseDirs, BaseDirs \cup {ExtensionDir(cfg.language)}}
  /\ tree = {}
  /\ pc = "idle"
  /\ opts = [dryRun |-> FALSE, force |-> FALSE]
  /\ operations = <<>>
  /\ modified = <<>>
  /\ errors = <<>>
  /\ thrown = <<>>
  /\ before = [files |-> files, dirs |-> dirs, tree |-> tree]
  /\ history = <<>>
  /\ cli \in {Cli("options", flags, valid) : flags \in Flags, valid \in BOOLEAN}

\* the two option checks at the top of main
CliCheckOptions ==
  /\ cli.pc = "options"
  /\ cli' = IF BadOptions(cli.options) THEN Exit(1) ELSE [cli EXCEPT !.pc = "validate"]
  /\ UNCHANGED generation

\* validateConfig and the exit on its errors
CliValidate ==
  /\ cli.pc = "validate"
  /\ cli' = IF cli.valid THEN [cli EXCEPT !.pc = "prepare"] ELSE Exit(1)
  /\ UNCHANGED generation

\* prepareRepository, unless dry run
CliPrepare ==
  /\ cli.pc = "prepare"
  /\ cli' = IF PreparesRepository(cli.options)
            THEN [GitCall("prepareRepository") EXCEPT !.hasGit = TRUE, !.pc = "generate"]
            ELSE [cli EXCEPT !.pc = "generate"]
  /\ UNCHANGED generation

\* `await generateExtension(context)`: the call begins
CliGenerate ==
  /\ cli.pc = "generate"
  /\ Call(cli.options.dryRun, cli.options.force)
  /\ cli' = [cli EXCEPT !.pc = "generating"]

\* a main that goes on to the commit whatever the result says
CliResultIgnoringFailure ==
  /\ cli.pc = "generating"
  /\ pc = "idle"
  /\ cli' = [cli EXCEPT !.pc = "commit"]
  /\ UNCHANGED generation

\* the call returned: exit on a failure result
CliResult ==
  /\ cli.pc = "generating"
  /\ pc = "idle"
  /\ cli' = IF history[Len(history)].success THEN [cli EXCEPT !.pc = "commit"] ELSE Exit(1)
  /\ UNCHANGED generation

\* commitChanges, under its guard
CliCommit ==
  /\ cli.pc = "commit"
  /\ cli' = IF CommitsChanges(cli.options, cli.hasGit)
            THEN [GitCall("commitChanges") EXCEPT !.pc = "push"]
            ELSE [cli EXCEPT !.pc = "finish"]
  /\ UNCHANGED generation

\* git.push, inside the commit block
CliPush ==
  /\ cli.pc = "push"
  /\ cli' = IF cli.options.push
            THEN [GitCall("push") EXCEPT !.pc = "createPr"]
            ELSE [cli EXCEPT !.pc = "finish"]
  /\ UNCHANGED generation

\* pushAndCreatePR, inside the push block
CliCreatePr ==
  /\ cli.pc = "createPr"
  /\ cli' = IF cli.options.createPr
            THEN [GitCall("pushAndCreatePR") EXCEPT !.pc = "finish"]
            ELSE [cli EXCEPT !.pc = "finish"]
  /\ UNCHANGED generation

\* main returns
CliFinish ==
  /\ cli.pc = "finish"
  /\ cli' = Exit(0)
  /\ UNCHANGED generation

Next ==
  \/ \E dryRun \in BOOLEAN, force \in BOOLEAN : Start(dryRun, force)
  \/ CheckExisting
  \/ CreateDirectories
  \/ GenerateNewFiles
  \/ PatchPackage
  \/ PatchCi
  \/ PatchCollectAssets
  \/ PatchCopyDist
  \/ PatchPackageExt
  \/ PatchLaunch
  \/ PatchWorkspace
  \/ ReturnSuccess
  \/ CatchError

Spec == Init /\ [][Next]_vars

NextCli ==
  \/ CliCheckOptions
  \/ CliValidate
  \/ CliPrepare
  \/ CliGenerate
  \/ CheckExisting
  \/ CreateDirectories
  \/ GenerateNewFiles
  \/ PatchPackage
  \/ PatchCi
  \/ PatchCollectAssets
  \/ PatchCopyDist
  \/ PatchPackageExt
  \/ PatchLaunch
  \/ PatchWorkspace
  \/ ReturnSuccess
  \/ CatchError
  \/ CliResult
  \/ CliCommit
  \/ CliPush
  \/ CliCreatePr
  \/ CliFinish

SpecCli == InitCli /\ [][NextCli]_vars

(***************************************************************************)
(* Two extensions generated one after the other into the same repository:  *)
(* the second call of generateExtension has the other configuration.       *)
(***************************************************************************)
\* the configurations of the two extensions; the identifier of the first is
\* a prefix of the identifier of the second
PairConfigs ==
  {Config(<<"a">>, <<"k">>, TRUE, TRUE, TRUE, GivenAssetSource),
   Config(<<"a", "b">>, <<"k">>, FALSE, FALSE, FALSE, GivenAssetSource)}

\* the repositories the two are generated into: the ordinary one, and one whose
\* workspace file has comments
PairRepositories ==
  {OrdinaryRepository,
   [OrdinaryRepository EXCEPT !.workspace = JsonFile(FALSE, "hand", EmptyWorkspace)]}

InitPair ==
  /\ cfg \in PairConfigs
  /\ files \in PairRepositories
  /\ templates \in TemplateDirs
  /\ dirs = BaseDirs
  /\ tree = {}
  /\ pc = "idle"
  /\ opts = [dryRun |-> FALSE, force |-> FALSE]
  /\ operations = <<>>
  /\ modified = <<>>
  /\ errors = <<>>
  /\ thrown = <<>>
  /\ before = [files |-> files, dirs |-> dirs, tree |-> tree]
  /\ history = <<>>
  /\ cli = NoCli

\* the call for the other extension, after the call for the first returned
StartOther(dryRun, force) ==
  /\ pc = "idle"
  /\ Len(history) = 1
  /\ cfg' \in PairConfigs \ {cfg}
  /\ pc' = "check"
  /\ opts' = [dryRun |-> dryRun, force |-> force]
  /\ operations' = <<>>
  /\ modified' = <<>>
  /\ errors' = <<>>
  /\ thrown' = <<>>
  /\ before' = Snapshot
  /\ UNCHANGED <<files, dirs, tree, templates, history, cli>>

NextPair ==
  \/ \E dryRun \in BOOLEAN, force \in BOOLEAN : Start(dryRun, force)
  \/ \E dryRun \in BOOLEAN, force \in BOOLEAN : StartOther(dryRun, force)
  \/ CheckExisting
  \/ CreateDirectories
  \/ GenerateNewFiles
  \/ PatchPackage
  \/ PatchCi
  \/ PatchCollectAssets
  \/ PatchCopyDist
  \/ PatchPackageExt
  \/ PatchLaunch
  \/ PatchWorkspace
  \/ ReturnSuccess
  \/ CatchError

SpecPair == InitPair /\ [][NextPair]_vars

(***************************************************************************)
(* Vocabulary of the properties.                                           *)
(***************************************************************************)
\* the finished runs; history changes only when a call returns, so the runs
\* are looked at in the states between two calls
Runs == IF pc = "idle" THEN 1..Len(history) ELSE {}

TargetPath(target) ==
  CASE target = "package" -> PackagePath
    [] target = "ci" -> CiPath
    [] target = "collectAssets" -> CollectAssetsPath
    [] target = "copyDist" -> CopyDistPath
    [] target = "packageExt" -> PackageExtPath
    [] target = "launch" -> LaunchPath
    [] target = "workspace" -> WorkspaceFilePath

\* the positions of the operations of a ledger that have the given path
OperationsAt(ledger, path) == {k \in 1..Len(ledger) : ledger[k].path = path}

ModifyCount(ledger) == Cardinality({k \in 1..Len(ledger) : ledger[k].type = "modify"})

AllTargetsExist(repository) == \A t \in Targets : repository[t].exists

\* a structured target that cannot be parsed
SomeUnparsable(repository) ==
  \E t \in {"package", "launch", "workspace"} : repository[t].exists /\ ~repository[t].ok

\* the run got past the check for an existing extension directory
PassedCheck(run) ==
  ~(ExistsSync(run.before.dirs, run.before.tree, ExtensionDir(cfg.language)) /\ ~run.force)

\* the idempotence key of a target does not hold in the repository, so that its
\* strategy has a change to make
Wanted(target, repository) ==
  LET file == repository[target]
  IN CASE target = "package" -> TRUE
       [] target = "ci" -> ~CiPresent(file.text, cfg)
       [] target = "collectAssets" -> ~AssetsPresent(file.text, cfg)
       [] target = "copyDist" -> ~CopyDistPresent(file.text, cfg)
       [] target = "packageExt" -> ~PackageExtPresent(file.text, cfg)
       [] target = "launch" -> LaunchStages(file.val, cfg)
       [] target = "workspace" -> ~HasFolder(ParseJsonc(file.val), cfg)

\* every strategy whose target exists and wants a change staged its operation
StrategiesRan(run) ==
  \A t \in Targets :
    run.before.files[t].exists /\ Wanted(t, run.before.files)
      => Cardinality(OperationsAt(run.operations, TargetPath(t))) = 1

\* the anchor of a text-mutated target
AnchorOf(target) ==
  CASE target = "ci" -> Concat(CiAnchor)
    [] target = "collectAssets" -> Concat(AssetsAnchor)
    [] target = "copyDist" -> Concat(ExtensionsAnchor)
    [] target = "packageExt" -> Concat(ValidExtensionsAnchor)

AnchoredTargets == {"ci", "collectAssets", "copyDist", "packageExt"}

\* run i + 1 repeats run i: both in apply mode with force set
Repeated(i) ==
  /\ i + 1 \in Runs
  /\ ~history[i].dryRun /\ history[i].force
  /\ ~history[i + 1].dryRun /\ history[i + 1].force

(***************************************************************************)
(* C1.  A second apply-mode run with the same input on a repository that   *)
(* holds the seven target files stages no Modify operation.                *)
(***************************************************************************)
C1_SecondRunStagesNothing ==
  \A i \in Runs :
    Repeated(i) /\ AllTargetsExist(history[i].before.files)
      => ModifyCount(history[i + 1].operations) = 0

(***************************************************************************)
(* C2.  A second apply-mode run with the same input leaves each of the     *)
(* seven target files as the first run left it.                            *)
(***************************************************************************)
C2_SecondRunChangesNothing ==
  \A i \in Runs :
    Repeated(i) => history[i + 1].after.files = history[i + 1].before.files

(***************************************************************************)
(* C3.  A preview run creates no directory and writes no file: at every    *)
(* step of the run and in its result, whether it succeeds or fails, the    *)
(* repository is as it was when the run started.                           *)
(***************************************************************************)
C3_PreviewWritesNothing ==
  /\ pc # "idle" /\ opts.dryRun => Snapshot = before
  /\ \A i \in Runs : history[i].dryRun => history[i].after = history[i].before

C3_Witness ==
  \E i \in Runs :
    /\ history[i].dryRun
    /\ history[i].success
    /\ ModifyCount(history[i].operations) = 7
    /\ Len(history[i].operations) > 7

(***************************************************************************)
(* C4.  A preview run and an apply run that start from the same            *)
(* repository with the same input return ledgers of the same length that   *)
(* agree, position by position, on type, path, description and change      *)
(* summaries.                                                              *)
(***************************************************************************)
SameStaging(a, b) ==
  /\ a.type = b.type
  /\ a.path = b.path
  /\ a.description = b.description
  /\ a.hasChanges = b.hasChanges
  /\ a.changes = b.changes

C4_PreviewApplyEquivalent ==
  \A i \in Runs, j \in Runs :
    /\ history[i].dryRun /\ ~history[j].dryRun
    /\ history[i].force = history[j].force
    /\ history[i].before = history[j].before
    => /\ Len(history[i].operations) = Len(history[j].operations)
       /\ \A k \in 1..Len(history[i].operations) :
            SameStaging(history[i].operations[k], history[j].operations[k])
       /\ history[i].success = history[j].success

C4_Witness ==
  \E i \in Runs, j \in Runs :
    /\ history[i].dryRun /\ ~history[j].dryRun
    /\ history[i].force = history[j].force
    /\ history[i].before = history[j].before
    /\ history[j].after # history[j].before
    /\ ModifyCount(history[j].operations) > 0
    /\ Len(history[j].operations) > ModifyCount(history[j].operations)

(***************************************************************************)
(* C5.  When the extension directory exists and force is not set, the run  *)
(* returns success = false, no operation and one error that names the      *)
(* directory, and the repository is as before, in either mode.             *)
(***************************************************************************)
C5_ExistingDirectoryAborts ==
  \A i \in Runs :
    ~PassedCheck(history[i])
      => /\ ~history[i].success
         /\ history[i].operations = <<>>
         /\ Len(history[i].errors) = 1
         /\ Includes(history[i].errors[1], ExtensionDir(cfg.language))
         /\ history[i].after = history[i].before

C5_Witness ==
  \E i \in Runs, j \in Runs :
    /\ ~PassedCheck(history[i]) /\ ~history[i].dryRun
    /\ ~PassedCheck(history[j]) /\ history[j].dryRun

(***************************************************************************)
(* C6.  In apply mode no operation of the ledger has content or diff; in   *)
(* preview mode every Create of a rendered template has content and every  *)
(* Modify has a diff.                                                      *)
(***************************************************************************)
C6_ContentAndDiffOnlyInPreview ==
  \A i \in Runs :
    \A k \in 1..Len(history[i].operations) :
      LET op == history[i].operations[k]
      IN IF history[i].dryRun
         THEN /\ op.type = "modify" => op.hasDiff
              /\ op.type = "create" /\ Head(op.description) = "Generated from "
                   => op.hasContent
         ELSE ~op.hasContent /\ ~op.hasDiff

(***************************************************************************)
(* C7.  A missing template does not fail the run.  In every run that got   *)
(* past the directory check, each enabled mapping whose template is        *)
(* missing has exactly one placeholder Create whose description asks for   *)
(* manual follow-up, and no file is written for it; each other enabled     *)
(* mapping has its Create; and when no structured target is unparsable,    *)
(* the patch strategies staged their operations and the result is          *)
(* success = true with no error.                                           *)
(***************************************************************************)
MappingList == FileMappings(TemplateData(cfg))

IsPlaceholderFor(op, mapping) ==
  /\ op.type = "create"
  /\ op.description = <<"Template ", mapping.template, " not found - create manually">>
  /\ ~op.hasContent

IsCreateFor(op, mapping) ==
  /\ op.type = "create"
  /\ op.description = <<"Generated from ", mapping.template>>

WrittenAt(fileTree, path) == {f \in fileTree : f[1] = path}

C7_MissingTemplateIsNotFatal ==
  \A i \in Runs :
    LET run == history[i]
    IN PassedCheck(run) =>
         /\ \A k \in 1..Len(MappingList) :
              LET m == MappingList[k]
                  placeholders ==
                    {n \in 1..Len(run.operations) : IsPlaceholderFor(run.operations[n], m)}
                  creates ==
                    {n \in 1..Len(run.operations) : IsCreateFor(run.operations[n], m)}
                  outputPath == Join(ExtensionDir(cfg.language), Output(m))
              IN /\ m.condition /\ m.template \notin templates
                   => /\ Cardinality(placeholders) = 1
                      /\ creates = {}
                      /\ WrittenAt(run.after.tree, outputPath)
                           = WrittenAt(run.before.tree, outputPath)
                 /\ m.condition /\ m.template \in templates
                   => /\ Cardinality(creates) = 1
                      /\ placeholders = {}
         /\ ~SomeUnparsable(run.before.files)
              => /\ run.success
                 /\ run.errors = <<>>
                 /\ StrategiesRan(run)
         /\ SomeUnparsable(run.before.files) => run.errors = <<ParseError>>

C7_Witness ==
  \E i \in Runs :
    /\ PassedCheck(history[i])
    /\ ~history[i].dryRun
    /\ cfg.proxyRequired
    /\ "proxyServer.ts.hbs" \notin templates
    /\ history[i].success
    /\ ModifyCount(history[i].operations) = 7
    /\ Cardinality({n \in 1..Len(history[i].operations) :
         \E k \in 1..Len(MappingList) :
           IsPlaceholderFor(history[i].operations[n], MappingList[k])}) = 2

(***************************************************************************)
(* C8.  A target file that is absent is passed over: no operation with     *)
(* its path is staged, the file is not created, it causes no error, and    *)
(* the strategies of the other targets stage their operations.             *)
(***************************************************************************)
C8_AbsentTargetIsSkipped ==
  \A i \in Runs : \A t \in Targets :
    LET run == history[i]
    IN ~run.before.files[t].exists =>
         /\ OperationsAt(run.operations, TargetPath(t)) = {}
         /\ ~run.after.files[t].exists
         /\ PassedCheck(run) /\ ~SomeUnparsable(run.before.files)
              => /\ run.success
                 /\ run.errors = <<>>
                 /\ StrategiesRan(run)

C8_Witness ==
  \E i \in Runs : \E t \in Targets :
    /\ ~history[i].dryRun
    /\ ~history[i].before.files[t].exists
    /\ history[i].success
    /\ ModifyCount(history[i].operations) = 6

(***************************************************************************)
(* C9.  A text-mutated target (CI workflow, collect-assets.js,             *)
(* copy-dist.js, package-extensions.js) whose anchor does not occur in it  *)
(* has the same content after the run as before: nothing is appended.      *)
(***************************************************************************)
AnchorMissing(run, target) ==
  /\ run.before.files[target].exists
  /\ ~Includes(run.before.files[target].text, AnchorOf(target))

C9_NoAnchorNoChange ==
  \A i \in Runs : \A t \in AnchoredTargets :
    AnchorMissing(history[i], t)
      => history[i].after.files[t] = history[i].before.files[t]

C9_Witness ==
  \E i \in Runs : \E t \in AnchoredTargets :
    /\ AnchorMissing(history[i], t)
    /\ ~history[i].dryRun
    /\ history[i].success
    /\ Wanted(t, history[i].before.files)
    /\ history[i].after.files # history[i].before.files

(***************************************************************************)
(* C10.  A text-mutated target whose anchor does not occur in it gets no   *)
(* operation in the ledger.                                                *)
(***************************************************************************)
C10_NoAnchorNoOperation ==
  \A i \in Runs : \A t \in AnchoredTargets :
    AnchorMissing(history[i], t)
      => OperationsAt(history[i].operations, TargetPath(t)) = {}

(***************************************************************************)
(* C11.  A structured target that cannot be parsed makes the run return a  *)
(* failure result whose errors hold the parser's message; the targets      *)
(* patched before it in the same apply-mode run keep their new content,    *)
(* and the failing target and the targets after it are left as they were.  *)
(***************************************************************************)
\* the order in which modifyExistingFiles visits the targets
TargetOrder ==
  <<"package", "ci", "collectAssets", "copyDist", "packageExt", "launch", "workspace">>

Position(target) == CHOOSE k \in 1..Len(TargetOrder) : TargetOrder[k] = target

\* the first target, in the order of the strategies, that cannot be parsed
FirstUnparsable(repository) ==
  CHOOSE t \in {"package", "launch", "workspace"} :
    /\ repository[t].exists /\ ~repository[t].ok
    /\ \A u \in {"package", "launch", "workspace"} :
         repository[u].exists /\ ~repository[u].ok => Position(t) <= Position(u)

\* the content the strategy of a target writes over the given file
NewContent(target, file) ==
  CASE target = "package" -> Stringify(PatchedPackage(file.val, cfg))
    [] target = "ci" -> TextFile(PatchedCi(file.text, cfg))
    [] target = "collectAssets" -> TextFile(PatchedAssets(file.text, cfg, RepoConfig))
    [] target = "copyDist" -> TextFile(PatchedCopyDist(file.text, cfg))
    [] target = "packageExt" -> TextFile(PatchedPackageExt(file.text, cfg))
    [] target = "launch" -> Stringify(PatchedLaunch(file.val, cfg))
    [] target = "workspace" -> Stringify(PatchedWorkspace(ParseJsonc(file.val), cfg))

C11_ParseFailureKeepsEarlierWrites ==
  \A i \in Runs :
    LET run == history[i]
        failing == FirstUnparsable(run.before.files)
    IN PassedCheck(run) /\ SomeUnparsable(run.before.files)
         => /\ ~run.success
            /\ \E k \in 1..Len(run.errors) : run.errors[k] = ParseError
            /\ \A t \in Targets :
                 IF Position(t) >= Position(failing)
                 THEN run.after.files[t] = run.before.files[t]
                 ELSE ~run.dryRun /\ run.before.files[t].exists
                        /\ Wanted(t, run.before.files)
                        => run.after.files[t] = NewContent(t, run.before.files[t])

\* an apply-mode run that failed on launch.json after it rewrote the five
\* targets before it
C11_Witness ==
  \E i \in Runs :
    /\ ~history[i].dryRun /\ PassedCheck(history[i])
    /\ FirstUnparsable(history[i].before.files) = "launch"
    /\ SomeUnparsable(history[i].before.files)
    /\ ~history[i].success
    /\ \A t \in {"package", "ci", "collectAssets", "copyDist", "packageExt"} :
         history[i].after.files[t] # history[i].before.files[t]
    /\ history[i].after.files.workspace = history[i].before.files.workspace

(***************************************************************************)
(* C12.  A result is a success exactly when its errors are empty, and      *)
(* exactly when the run got past the directory check and no step threw;    *)
(* a run in which a step threw is a failure with exactly one error, the    *)
(* message of the exception.                                               *)
(***************************************************************************)
C12_SuccessIffNoErrors ==
  \A i \in Runs :
    LET run == history[i]
        threw == PassedCheck(run) /\ SomeUnparsable(run.before.files)
    IN /\ run.success <=> run.errors = <<>>
       /\ run.success <=> PassedCheck(run) /\ ~threw
       /\ threw => ~run.success /\ run.errors = <<ParseError>>

\* a run in which a patch step threw after operations were staged
C12_Witness ==
  \E i \in Runs :
    /\ PassedCheck(history[i]) /\ SomeUnparsable(history[i].before.files)
    /\ ~history[i].success
    /\ Len(history[i].errors) = 1
    /\ Len(history[i].operations) > 0

(***************************************************************************)
(* C13.  In every returned ledger all Create operations come before all    *)
(* Modify operations, the Creates are in the declaration order of the      *)
(* mapping table, the Modifies are in the order package.json, CI           *)
(* workflow, collect-assets, copy-dist, package-extensions, launch.json,   *)
(* workspace file; two runs with the same input on the same repository     *)
(* state return the same ledger.                                           *)
(***************************************************************************)
\* the entries of the mapping table an operation can come from
MappingsOf(op) ==
  LET list == MappingList
  IN {k \in 1..Len(list) : IsCreateFor(op, list[k]) \/ IsPlaceholderFor(op, list[k])}

\* the targets an operation can be the patch of
TargetsOf(op) == {t \in Targets : op.path = TargetPath(t)}

\* the place of an operation in the order of the strategies: the entries of
\* the mapping table first, the targets after them
Places(op) ==
  IF op.type = "create" THEN MappingsOf(op)
  ELSE {Len(MappingList) + Position(t) : t \in TargetsOf(op)}

C13_LedgerOrder ==
  \A i \in Runs :
    LET ops == history[i].operations
        places == [k \in 1..Len(ops) |-> Places(ops[k])]
    IN /\ \A k \in 1..Len(ops) :
            /\ ops[k].type \in {"create", "modify"}
            /\ Cardinality(places[k]) = 1
       /\ \A k \in 1..(Len(ops) - 1) :
            \A m \in places[k], n \in places[k + 1] : m < n
       /\ \A j \in Runs :
            /\ history[j].dryRun = history[i].dryRun
            /\ history[j].force = history[i].force
            /\ history[j].before = history[i].before
            => history[j].operations = ops

\* two runs with the same input on the same repository state that staged
\* every emission and every patch
C13_Witness ==
  \E i \in Runs, j \in Runs :
    /\ i < j
    /\ history[j].dryRun = history[i].dryRun
    /\ history[j].force = history[i].force
    /\ history[j].before = history[i].before
    /\ history[i].success
    /\ ModifyCount(history[i].operations) = 7
    /\ Len(history[i].operations) >= 15

(***************************************************************************)
(* C14.  On a repository that holds the seven target files and in which    *)
(* no idempotence key holds, a successful run stages exactly 9 Create      *)
(* operations when lsp.proxyRequired is set and 8 otherwise, followed by   *)
(* exactly 7 Modify operations; the Create of the proxy server is staged   *)
(* exactly when lsp.proxyRequired is set, whatever lsp.enabled is.         *)
(***************************************************************************)
\* the idempotence key of a target: the test its strategy makes to decide that
\* the change is already there
KeyHolds(target, repository) ==
  LET file == repository[target]
  IN CASE target = "package" ->
            \E k \in 1..Len(file.val.workspaces) :
              file.val.workspaces[k] = WorkspacePath(cfg.language)
       [] target = "ci" -> CiPresent(file.text, cfg)
       [] target = "collectAssets" -> AssetsPresent(file.text, cfg)
       [] target = "copyDist" -> CopyDistPresent(file.text, cfg)
       [] target = "packageExt" -> PackageExtPresent(file.text, cfg)
       [] target = "launch" -> HasExtension(file.val, cfg)
       [] target = "workspace" -> HasFolder(ParseJsonc(file.val), cfg)

CreateCount(ledger) == Cardinality({k \in 1..Len(ledger) : ledger[k].type = "create"})

\* the operations of a ledger that come from the proxy server mapping
ProxyCreates(ledger) ==
  {k \in 1..Len(ledger) :
     \E m \in MappingsOf(ledger[k]) : MappingList[m].template = "proxyServer.ts.hbs"}

\* the numbers of Create and Modify operations of a full run, Creates first
FullLedger(run) ==
  LET creates == IF cfg.proxyRequired THEN 9 ELSE 8
  IN /\ Len(run.operations) = creates + 7
     /\ \A k \in 1..Len(run.operations) :
          run.operations[k].type = IF k <= creates THEN "create" ELSE "modify"
     /\ ProxyCreates(run.operations) # {} <=> cfg.proxyRequired

KeyTails == {": {},", ": {\n    release: {\n      repo: "}

\* the text declares an entry keyed by the name
HasEntry(text, name) ==
  \E k \in 1..Len(text) :
    /\ MatchAt(text, Quoted(name), k)
    /\ k + Len(Quoted(name)) <= Len(text)
    /\ text[k + Len(Quoted(name))] \in KeyTails

C15_PresentKeySkipsCollectAssets ==
  \A i \in Runs :
    LET run == history[i]
        file == run.before.files.collectAssets
    IN PassedCheck(run) /\ file.exists /\ HasEntry(file.text, cfg.binaryName)
         => /\ OperationsAt(run.operations, CollectAssetsPath) = {}
            /\ run.after.files.collectAssets = file
            /\ run.success =>
                 \A t \in Targets \ {"collectAssets"} :
                   run.before.files[t].exists /\ Wanted(t, run.before.files)
                     => Cardinality(OperationsAt(run.operations, TargetPath(t))) = 1

\* an apply-mode run on a repository whose collect-assets.js has the key: the
\* other six targets are patched
C15_Witness ==
  \E i \in Runs :
    /\ ~history[i].dryRun /\ history[i].success
    /\ history[i].before.files.collectAssets.exists
    /\ HasEntry(history[i].before.files.collectAssets.text, cfg.binaryName)
    /\ OperationsAt(history[i].operations, CollectAssetsPath) = {}
    /\ ModifyCount(history[i].operations) = 6

(***************************************************************************)
(* C16.  When package.json exists and its workspaces list lacks            *)
(* vscode/<id>, then after an apply-mode run the list holds every          *)
(* previous entry and exactly one new entry, vscode/<id>, in sorted        *)
(* order; scripts has the key package-<id> with the value                  *)
(* `node ./scripts/package-extensions.js <id>`; every other script and     *)
(* every other top-level key keeps its previous value.                     *)
(***************************************************************************)
Occurrences(seq, e) == Cardinality({k \in 1..Len(seq) : seq[k] = e})

IsSorted(seq) == \A k \in 1..Len(seq), l \in 1..Len(seq) : k < l => ~StringLess(seq[l], seq[k])

C16_PackageJsonPatch ==
  \A i \in Runs :
    LET run == history[i]
        old == run.before.files.package
        new == run.after.files.package
        path == WorkspacePath(cfg.language)
    IN /\ ~run.dryRun /\ PassedCheck(run)
       /\ old.exists /\ old.ok
       /\ path \notin Range(old.val.workspaces)
       => /\ new.exists /\ new.ok
          /\ HasKey(new.val, "workspaces") /\ HasKey(new.val, "scripts")
          /\ IsSorted(new.val.workspaces)
          /\ \A e \in Range(new.val.workspaces) \cup Range(old.val.workspaces) :
               Occurrences(new.val.workspaces, e)
                 = Occurrences(old.val.workspaces, e) + (IF e = path THEN 1 ELSE 0)
          /\ Cardinality({k \in 1..Len(new.val.scripts) :
                            new.val.scripts[k][1] = ScriptName(cfg)}) = 1
          /\ <<ScriptName(cfg), ScriptCommand(cfg)>> \in Range(new.val.scripts)
          /\ \A k \in 1..Len(old.val.scripts) :
               old.val.scripts[k][1] # ScriptName(cfg)
                 => Occurrences(new.val.scripts, old.val.scripts[k]) = 1
          /\ \A key \in Range(old.val.keys) : HasKey(new.val, key)
          /\ new.val.name = old.val.name

\* an apply-mode run on a manifest whose workspaces were not in sorted order and
\* that had another script
C16_Witness ==
  \E i \in Runs :
    /\ ~history[i].dryRun /\ PassedCheck(history[i])
    /\ history[i].before.files.package.exists /\ history[i].before.files.package.ok
    /\ WorkspacePath(cfg.language)
         \notin Range(history[i].before.files.package.val.workspaces)
    /\ ~IsSorted(history[i].before.files.package.val.workspaces)
    /\ Len(history[i].before.files.package.val.scripts) = 1
    /\ Len(history[i].after.files.package.val.workspaces) = 3
    /\ Len(history[i].after.files.package.val.scripts) = 2

(***************************************************************************)
(* C17.  A command line with --no-commit and without --dry-run makes no    *)
(* git commit, and so no push and no pull request; a command line          *)
(* without --no-commit (and without --dry-run) that ends well has          *)
(* committed the changes.                                                  *)
(***************************************************************************)
GitCalls == Range(cli.git)

C17_NoCommitSkipsCommit ==
  cli.pc = "exit" =>
    /\ cli.flags.noCommit /\ ~cli.flags.dryRun
         => GitCalls \cap {"commitChanges", "push", "pushAndCreatePR"} = {}
    /\ ~cli.flags.noCommit /\ ~cli.flags.dryRun /\ cli.exitCode = 0
         => "commitChanges" \in GitCalls

(***************************************************************************)
(* C18.  A command line with --dry-run calls no git function at all: the   *)
(* repository is not prepared, no branch is made, nothing is committed,    *)
(* pushed or proposed, whatever the other flags are.                       *)
(***************************************************************************)
C18_DryRunCallsNoGit == cli.flags.dryRun => cli.git = <<>>

\* a preview run with --push and --create-pr that ended well
C18_Witness ==
  /\ cli.pc = "exit" /\ cli.exitCode = 0
  /\ cli.flags.dryRun /\ cli.flags.push /\ cli.flags.createPr /\ ~cli.flags.noCommit
  /\ Len(history) = 1
  /\ history[1].success /\ history[1].dryRun
  /\ Len(history[1].operations) > 0

(***************************************************************************)
(* C19.  The entry inserted into the ASSETS object names the repository    *)
(* and the release tag of provider.assetSource when the configuration      *)
(* gives one, and otherwise <org>/<repo> and the release tag read from     *)
(* the target repository; the change summary of the operation reports the  *)
(* repository and the tag that were written.                               *)
(***************************************************************************)
ExpectedRepo ==
  IF cfg.hasAssetSource THEN cfg.assetSource.repository
  ELSE RepoConfig.org \o <<"/">> \o RepoConfig.repo

ExpectedTag ==
  IF cfg.hasAssetSource THEN cfg.assetSource.releaseTag ELSE RepoConfig.releaseTag

\* the text holds a release block with the repository and the tag
HasRelease(text, repo, tag) ==
  Includes(text, <<": {\n    release: {\n      repo: ">> \o Quoted(repo)
                   \o <<",\n      tag: ">> \o Quoted(tag))

\* the operation reports the repository and the tag
Reports(op, repo, tag) ==
  /\ op.hasChanges
  /\ <<"Repository: ">> \o repo \in Range(op.changes)
  /\ <<"Tag: ">> \o tag \in Range(op.changes)

C19_AssetSourceWritten ==
  \A i \in Runs :
    LET run == history[i]
        old == run.before.files.collectAssets
    IN /\ ~run.dryRun /\ PassedCheck(run)
       /\ run.before.files.package.exists => run.before.files.package.ok
       /\ old.exists /\ ~AssetsPresent(old.text, cfg)
       /\ Includes(old.text, AnchorOf("collectAssets"))
       => /\ HasRelease(run.after.files.collectAssets.text, ExpectedRepo, ExpectedTag)
          /\ run.success =>
               \A k \in OperationsAt(run.operations, CollectAssetsPath) :
                 Reports(run.operations[k], ExpectedRepo, ExpectedTag)

(***************************************************************************)
(* C20.  Rendering a template that refers to a field the rendering         *)
(* context does not have does not succeed silently: the run reports a      *)
(* rendering error that names the template and the missing field.          *)
(***************************************************************************)
\* the fields of the rendering context a template refers to and does not find
AbsentFields(name, data) ==
  {field \in {"provider.assetSource.repository"} :
     /\ "{{provider.assetSource.repository}}" \in Range(TemplateSource(name))
     /\ ~data.hasAssetSource}

C20_MissingFieldIsReported ==
  \A i \in Runs :
    PassedCheck(history[i]) =>
      \A k \in 1..Len(MappingList) :
        LET mapping == MappingList[k]
        IN /\ mapping.condition
           /\ mapping.template \in templates
           => \A field \in AbsentFields(mapping.template, TemplateData(cfg)) :
                /\ ~history[i].success
                /\ \E e \in Range(history[i].errors) :
                     Includes(e, <<mapping.template>>) /\ Includes(e, <<field>>)

(***************************************************************************)
(* C21.  For a workspace file that is JSON but for trailing commas, the    *)
(* patch leaves the folders list equal to the previous list (every entry,  *)
(* in its order, with all its fields) followed by exactly one new entry    *)
(* {path: vscode/<id>}, and keeps the other top-level keys; the strategy   *)
(* is skipped exactly when the path of an existing folder is vscode/<id>.  *)
(***************************************************************************)
\* the run got as far as the workspace strategy
ReachedWorkspace(run) ==
  /\ PassedCheck(run)
  /\ \A t \in {"package", "launch"} :
       run.before.files[t].exists => run.before.files[t].ok

NewFolder == [path |-> WorkspacePath(cfg.language), hasName |-> FALSE, name |-> <<>>]

C21_WorkspaceRoundTrip ==
  \A i \in Runs :
    LET run == history[i]
        old == run.before.files.workspace
        new == run.after.files.workspace
        staged == OperationsAt(run.operations, WorkspaceFilePath)
    IN ~run.dryRun /\ ReachedWorkspace(run) /\ old.exists /\ old.ok
         => IF \E k \in 1..Len(old.val.folders) :
                 old.val.folders[k].path = WorkspacePath(cfg.language)
            THEN staged = {} /\ new = old
            ELSE /\ Cardinality(staged) = 1
                 /\ new.exists /\ new.ok
                 /\ new.val.folders = Append(old.val.folders, NewFolder)
                 /\ \A key \in Range(old.val.keys) : HasKey(new.val, key)

(***************************************************************************)
(* C22.  When the CI workflow does not mention the extension and has a     *)
(* step named "Upload VSIX artifacts", the new content is the old content  *)
(* with exactly one package step inserted immediately before the first     *)
(* such step, at the indentation of that step; taking the inserted block   *)
(* out of the new content gives the old content back.                      *)
(***************************************************************************)
\* the positions of the upload step in a workflow text
UploadSteps(text) == {k \in 2..Len(text) : text[k] = UploadStep}

\* the text with the package step put before position k, at the indentation
\* that stands before position k
WithStepBefore(text, k) ==
  SubSeq(text, 1, k - 1) \o PackageStep(cfg) \o <<"\n", "\n", text[k - 1]>>
    \o SubSeq(text, k, Len(text))

\* the run got as far as the strategies of the text targets
ReachedTextTargets(run) ==
  /\ PassedCheck(run)
  /\ run.before.files.package.exists => run.before.files.package.ok

C22_CiStepInserted ==
  \A i \in Runs :
    LET run == history[i]
        old == run.before.files.ci
        new == run.after.files.ci
    IN /\ ~run.dryRun /\ ReachedTextTargets(run)
       /\ old.exists /\ ~CiPresent(old.text, cfg)
       /\ UploadSteps(old.text) # {}
       => LET first == CHOOSE k \in UploadSteps(old.text) :
                         \A l \in UploadSteps(old.text) : k <= l
          IN new.text = WithStepBefore(old.text, first)

(***************************************************************************)
(* C23.  For collect-assets.js, copy-dist.js and package-extensions.js,    *)
(* when the idempotence key does not hold and the opening token of the     *)
(* literal is present, the new content is the old content with the new     *)
(* entry inserted immediately after the first occurrence of the token;     *)
(* every other part of the file is unchanged, so the entries that were     *)
(* there remain, in their order.                                           *)
(***************************************************************************)
LiteralTargets == {"collectAssets", "copyDist", "packageExt"}

\* what marks the inserted block as the entry of the target
EntryMark(target) ==
  CASE target = "collectAssets" -> <<": {\n    release: {\n      repo: ">>
    [] target = "copyDist" -> Quoted(cfg.language) \o <<": {\n    extensionPath: ">>
    [] target = "packageExt" -> Quoted(cfg.language) \o <<", ">>

\* new is old with a block that holds the mark put in right after position at
InsertedAfter(old, new, at, mark) ==
  LET n == Len(new) - Len(old)
  IN /\ n > 0
     /\ SubSeq(new, 1, at) = SubSeq(old, 1, at)
     /\ SubSeq(new, at + n + 1, Len(new)) = SubSeq(old, at + 1, Len(old))
     /\ Includes(SubSeq(new, at + 1, at + n), mark)

C23_EntryInsertedAfterToken ==
  \A i \in Runs :
    LET run == history[i]
    IN ~run.dryRun /\ ReachedTextTargets(run) =>
         \A t \in LiteralTargets :
           LET old == run.before.files[t].text
               token == AnchorOf(t)
           IN /\ run.before.files[t].exists
              /\ Wanted(t, run.before.files)
              /\ Includes(old, token)
              => InsertedAfter(old, run.after.files[t].text,
                               IndexOf(old, token) + Len(token) - 1, EntryMark(t))

\* an apply-mode run that put an entry into each of the three literals, each
\* of which had an entry before
C23_Witness ==
  \E i \in Runs :
    /\ ~history[i].dryRun /\ ReachedTextTargets(history[i])
    /\ \A t \in LiteralTargets :
         /\ history[i].before.files[t].exists
         /\ Wanted(t, history[i].before.files)
         /\ Includes(history[i].before.files[t].text, AnchorOf(t))
         /\ Len(history[i].before.files[t].text) > Len(AnchorOf(t)) + 2
         /\ Len(history[i].after.files[t].text) > Len(history[i].before.files[t].text)

(***************************************************************************)
(* C24.  When no path list of launch.json refers to the directory of the   *)
(* extension, the patch appends ${workspaceFolder}/vscode/<id> exactly     *)
(* once to the path list of every configuration, in the order of the       *)
(* configurations, each list keeping its entries in their order; when a    *)
(* path list refers to the directory already, no operation is staged and   *)
(* the file is not written.                                                *)
(***************************************************************************)
\* the path names the directory vscode/<id>
RefersTo(path, language) ==
  LET dir == WorkspacePath(language)
  IN /\ Len(path) >= Len(dir)
     /\ SubSeq(path, Len(path) - Len(dir) + 1, Len(path)) = dir

\* a path list of the launch file refers to the directory
Referenced(launchJson, language) ==
  \E k \in 1..Len(launchJson.configurations) :
    /\ launchJson.configurations[k].hasPaths
    /\ \E l \in 1..Len(launchJson.configurations[k].paths) :
         RefersTo(launchJson.configurations[k].paths[l], language)

C24_LaunchPathsAppended ==
  \A i \in Runs :
    LET run == history[i]
        old == run.before.files.launch
        new == run.after.files.launch
    IN ~run.dryRun /\ ReachedTextTargets(run) /\ old.exists /\ old.ok
         => IF Referenced(old.val, cfg.language)
            THEN OperationsAt(run.operations, LaunchPath) = {} /\ new = old
            ELSE /\ Len(new.val.configurations) = Len(old.val.configurations)
                 /\ \A k \in 1..Len(old.val.configurations) :
                      LET c == old.val.configurations[k]
                      IN new.val.configurations[k] =
                           IF c.hasPaths
                           THEN [c EXCEPT !.paths =
                                   Append(c.paths, DevelopmentPath(cfg.language))]
                           ELSE c

(***************************************************************************)
(* C25.  The copy-dist patch is skipped exactly when the EXTENSIONS        *)
(* object literal has a key equal to the extension identifier, and the     *)
(* package-extensions patch exactly when the VALID_EXTENSIONS array        *)
(* literal has the identifier as a string element: the decision depends    *)
(* on the contents of the literal only, not on text elsewhere in the file. *)
(***************************************************************************)
\* the atoms that close a module-level literal
Closers == {"};", "];"}

\* the quoted name stands inside the literal that the token opens
InLiteral(text, token, name) ==
  /\ Includes(text, token)
  /\ LET open == IndexOf(text, token)
     IN \E k \in (open + 1)..Len(text) :
          /\ MatchAt(text, Quoted(name), k)
          /\ \A l \in (open + 1)..k : text[l] \notin Closers

C25_DecisionByLiteralOnly ==
  \A i \in Runs :
    LET run == history[i]
    IN run.success =>
         \A t \in {"copyDist", "packageExt"} :
           run.before.files[t].exists =>
             (OperationsAt(run.operations, TargetPath(t)) = {}
                <=> InLiteral(run.before.files[t].text, AnchorOf(t), cfg.language))

(***************************************************************************)
(* C26.  In every run of the command line the steps are gated on one       *)
(* another: the configuration is validated before the repository is        *)
(* prepared and before anything is generated; the commit comes only after  *)
(* generateExtension returned success, the push only after the commit,     *)
(* the pull request only after the push.  A validation failure or a        *)
(* generation failure ends the process with exit code 1, and no commit,    *)
(* push or pull request follows it.                                        *)
(***************************************************************************)
\* the git calls of a full run, in their order
GitOrder == <<"prepareRepository", "commitChanges", "push", "pushAndCreatePR">>

\* generateExtension was called
Generating == pc # "idle" \/ history # <<>>

\* the call of generateExtension returned a failure result
GenerationFailed == pc = "idle" /\ history # <<>> /\ ~history[Len(history)].success

C26_CliStepOrder ==
  cli.pc # "off" =>
    /\ Len(cli.git) <= Len(GitOrder) /\ cli.git = SubSeq(GitOrder, 1, Len(cli.git))
    /\ cli.git # <<>> \/ Generating => cli.valid /\ cli.pc \notin {"options", "validate"}
    /\ "commitChanges" \in GitCalls =>
         pc = "idle" /\ history # <<>> /\ history[Len(history)].success
    /\ ~cli.valid /\ cli.pc \notin {"options", "validate"} =>
         cli.pc = "exit" /\ cli.exitCode = 1 /\ cli.git = <<>> /\ ~Generating
    /\ GenerationFailed =>
         /\ cli.pc \in {"generating", "exit"}
         /\ cli.pc = "exit" => cli.exitCode = 1
         /\ GitCalls \subseteq {"prepareRepository"}

\* a run that prepared the repository, generated, committed, pushed and
\* opened the pull request
C26_Witness ==
  /\ cli.pc = "exit" /\ cli.exitCode = 0
  /\ cli.git = GitOrder
  /\ history # <<>> /\ history[1].success /\ ~history[1].dryRun

(***************************************************************************)
(* C27.  Two extensions with distinct identifiers, one a prefix of the     *)
(* other, generated one after the other in apply mode into a repository    *)
(* that has the seven targets with their anchors and no entry for either:  *)
(* after both runs the CI workflow has a package step for each, every      *)
(* launch path list has the path of each, and the workspaces of            *)
(* package.json, the workspace folders, EXTENSIONS and VALID_EXTENSIONS    *)
(* have an entry for each, in whichever order the two were generated.      *)
(***************************************************************************)
\* the repository is wired for the extension
Wired(repository, language) ==
  /\ Includes(repository.ci.text,
              <<"run: npm run ", "package-">> \o language \o <<"\n">>)
  /\ \A k \in 1..Len(repository.launch.val.configurations) :
       LET c == repository.launch.val.configurations[k]
       IN c.hasPaths => DevelopmentPath(language) \in Range(c.paths)
  /\ WorkspacePath(language) \in Range(repository.package.val.workspaces)
  /\ \E k \in 1..Len(repository.workspace.val.folders) :
       repository.workspace.val.folders[k].path = WorkspacePath(language)
  /\ InLiteral(repository.copyDist.text, AnchorOf("copyDist"), language)
  /\ InLiteral(repository.packageExt.text, AnchorOf("packageExt"), language)

\* both extensions were generated, each by one successful apply-mode run
BothGenerated ==
  /\ pc = "idle"
  /\ Len(history) = 2
  /\ history[1].language # history[2].language
  /\ history[1].before.files = OrdinaryRepository
  /\ \A i \in 1..2 : ~history[i].dryRun /\ history[i].success

C27_BothExtensionsWired ==
  BothGenerated => Wired(files, history[1].language) /\ Wired(files, history[2].language)

(***************************************************************************)
(* C28.  In apply mode every file a run created or rewrote on disk has an  *)
(* operation in the operations the run returned: a Create operation for    *)
(* each generated file and a Modify operation for each rewritten target,   *)
(* also when a later patch strategy threw.                                 *)
(***************************************************************************)
\* the targets whose file on disk the run changed
Rewritten(run) == {t \in Targets : run.after.files[t] # run.before.files[t]}

\* the generated files the run wrote
Generated(run) ==
  {k \in 1..Len(MappingList) :
     \E f \in run.after.tree \ run.before.tree :
       f[1] = Join(ExtensionDir(cfg.language), Output(MappingList[k]))}

HasModify(ledger, target) ==
  \E n \in OperationsAt(ledger, TargetPath(target)) : ledger[n].type = "modify"

HasCreate(ledger, mapping) ==
  \E n \in OperationsAt(ledger, RenderedPath(cfg.language, mapping)) :
    ledger[n].type = "create"

C28_LedgerCoversWrites ==
  \A i \in Runs :
    LET run == history[i]
    IN ~run.dryRun =>
         /\ \A t \in Rewritten(run) : HasModify(run.operations, t)
         /\ \A k \in Generated(run) : HasCreate(run.operations, MappingList[k])

(***************************************************************************)
(* C29.  A launch.json that has configurations none of which has an        *)
(* extensionDevelopmentPath list yields no Modify operation and is not     *)
(* rewritten: a run stages the Modify operation of launch.json only when   *)
(* at least one list received the path.                                    *)
(***************************************************************************)
\* the configurations of launch.json that have an extensionDevelopmentPath list
PathLists(launchJson) ==
  IF HasKey(launchJson, "configurations")
  THEN {k \in 1..Len(launchJson.configurations) : launchJson.configurations[k].hasPaths}
  ELSE {}

C29_NoPathListNoOperation ==
  \A i \in Runs :
    LET run == history[i]
        launch == run.before.files.launch
    IN launch.exists /\ launch.ok =>
         /\ HasModify(run.operations, "launch") => PathLists(launch.val) # {}
         /\ PathLists(launch.val) = {} => run.after.files.launch = launch

(***************************************************************************)
(* C30.  The path of every operation of a ledger is relative to the        *)
(* repository root; the placeholder Create operation of a missing template *)
(* has the path vscode/<id>/<output> that the Create operation of the      *)
(* rendered file would have.                                               *)
(***************************************************************************)
\* the path starts at the root of the repository on disk
UnderRepoPath(path) ==
  Len(path) >= Len(RepoPath) /\ SubSeq(path, 1, Len(RepoPath)) = RepoPath

C30_OperationPathsRelative ==
  \A i \in Runs :
    LET ledger == history[i].operations
    IN \A n \in 1..Len(ledger) :
         /\ ~UnderRepoPath(ledger[n].path)
         /\ \A k \in 1..Len(MappingList) :
              IsPlaceholderFor(ledger[n], MappingList[k])
                => ledger[n].path = RenderedPath(cfg.language, MappingList[k])

====
